---- MODULE Spec2Model ----
(***************************************************************************)
(* A model of the physics core of 2d-math-utils: the vector and point      *)
(* primitives (src/src/vector.ts, src/src/point.ts), the pairwise          *)
(* collision resolver and the many-body force fields (src/src/physics.ts)  *)
(* and the PhysicalBody integrator (src/src/PhysicalBody.ts).              *)
(*                                                                         *)
(* Numbers.  A JavaScript number is modelled as an exact rational <<n, d>> *)
(* in lowest terms with d > 0.  The non-finite values keep their place:    *)
(* <<1, 0>> is Infinity, <<-1, 0>> is -Infinity and <<0, 0>> is NaN, with  *)
(* the IEEE rules for them.  The sign of zero is not modelled, and         *)
(* rounding only in SpecSurface.  Math.sqrt is exact and defined only      *)
(* where the root is rational; the input sets keep every distance the      *)
(* code takes rational.                                                    *)
(***************************************************************************)
EXTENDS Integers, Sequences, FiniteSets, TLC

VARIABLES
    bodies,     \* body id -> the fields of that PhysicalBody / CollisionObject
    hist,       \* hist[1] holds the bodies as constructed; every later entry
                \* one operation on them (its name and arguments) and the
                \* bodies after it
    shared,     \* the vector fields in which the two bodies hold the same object
    calls,      \* the calls made to the vector functions and to the many-body
                \* force fields, in order: arguments and result
    particles   \* the array of particle / boid records the host passes to
                \* the many-body force fields

vars == <<bodies, hist, shared, calls, particles>>

----------------------------------------------------------------------------
(* Numbers *)

Abs(n) == IF n < 0 THEN -n ELSE n

Sgn(n) == IF n < 0 THEN -1 ELSE IF n > 0 THEN 1 ELSE 0

RECURSIVE GCD(_, _)
GCD(m, n) == IF n = 0 THEN m ELSE GCD(n, m % n)

\* The number n/d in lowest terms; n/0 is an infinity or NaN.
Norm(n, d) ==
    IF d = 0 THEN <<Sgn(n), 0>>
    ELSE LET g == GCD(Abs(n), Abs(d))
             s == IF d < 0 THEN -1 ELSE 1
         IN  <<(s * n) \div g, (s * d) \div g>>

R(n) == <<n, 1>>

NaN == <<0, 0>>

IsNaN(a) == a = NaN

IsFinite(a) == a[2] # 0

RNeg(a) == <<-a[1], a[2]>>

\* a + b, over the least common denominator.
RAdd(a, b) ==
    IF a[2] = 0 /\ b[2] = 0 THEN (IF a = b THEN a ELSE NaN)
    ELSE IF a[2] = 0 THEN a
    ELSE IF b[2] = 0 THEN b
    ELSE LET g == GCD(a[2], b[2])
         IN  Norm(a[1] * (b[2] \div g) + b[1] * (a[2] \div g),
                  (a[2] \div g) * b[2])

\* a - b
RSub(a, b) == RAdd(a, RNeg(b))

\* a * b, the common factors cancelled before the products are taken.
RMul(a, b) ==
    IF a[2] = 0 \/ b[2] = 0 THEN <<Sgn(a[1]) * Sgn(b[1]), 0>>
    ELSE IF a[1] = 0 \/ b[1] = 0 THEN <<0, 1>>
    ELSE LET g1 == GCD(Abs(a[1]), b[2])
             g2 == GCD(Abs(b[1]), a[2])
         IN  <<(a[1] \div g1) * (b[1] \div g2),
               (a[2] \div g2) * (b[2] \div g1)>>

\* 1 / a
RInv(a) == IF a[1] < 0 THEN <<-a[2], -a[1]>> ELSE <<a[2], a[1]>>

\* a / b
RDiv(a, b) == RMul(a, RInv(b))

\* a === b
REq(a, b) == a = b /\ ~IsNaN(a)

\* a < b
RLt(a, b) ==
    /\ ~IsNaN(a)
    /\ ~IsNaN(b)
    /\ IF a[2] = 0 /\ b[2] = 0 THEN a[1] < b[1]
       ELSE IF a[2] = 0 THEN a[1] < 0
       ELSE IF b[2] = 0 THEN b[1] > 0
       ELSE LET g == GCD(a[2], b[2])
            IN  a[1] * (b[2] \div g) < b[1] * (a[2] \div g)

\* a <= b
RLe(a, b) == RLt(a, b) \/ REq(a, b)

\* a > b
RGt(a, b) == RLt(b, a)

\* a >= b
RGe(a, b) == RLe(b, a)

RECURSIVE SqrtIter(_, _)
SqrtIter(n, x) ==
    LET y == (x + n \div x) \div 2
    IN  IF y >= x THEN x ELSE SqrtIter(n, y)

\* The integer part of the square root of a natural number.
ISqrt(n) == IF n = 0 THEN 0 ELSE SqrtIter(n, n)

IsSquare(n) == n >= 0 /\ ISqrt(n) * ISqrt(n) = n

\* The numbers whose square root the model can take.
HasSqrt(a) == a[2] = 0 \/ a[1] < 0 \/ (IsSquare(a[1]) /\ IsSquare(a[2]))

\* Math.sqrt(a)
Sqrt(a) ==
    IF a[2] = 0 THEN (IF a[1] > 0 THEN a ELSE NaN)
    ELSE IF a[1] < 0 THEN NaN
    ELSE CHOOSE r \in {<<ISqrt(a[1]), ISqrt(a[2])>>} : RMul(r, r) = a

----------------------------------------------------------------------------
(* src/src/vector.ts and src/src/point.ts *)

Vec(x, y) == [x |-> x, y |-> y]

\* A vector with integer coordinates.
V(x, y) == Vec(R(x), R(y))

zero == V(0, 0)

add(v1, v2) == Vec(RAdd(v1.x, v2.x), RAdd(v1.y, v2.y))

subtract(v1, v2) == Vec(RSub(v1.x, v2.x), RSub(v1.y, v2.y))

scale(v, scalar) == Vec(RMul(v.x, scalar), RMul(v.y, scalar))

length(v) == Sqrt(RAdd(RMul(v.x, v.x), RMul(v.y, v.y)))

\* normalize with (1,0) for the vector of length 0.
normalizeFallback(v) ==
    LET len == length(v)
    IN  IF REq(len, R(0)) THEN V(1, 0) ELSE scale(v, RDiv(R(1), len))

normalize(v) ==
    LET len == length(v)
    IN  IF REq(len, R(0)) THEN zero ELSE scale(v, RDiv(R(1), len))

dot(v1, v2) == RAdd(RMul(v1.x, v2.x), RMul(v1.y, v2.y))

\* reflect without the factor 2.
reflectNoDouble(vector, normal) ==
    LET dotProduct == dot(vector, normal)
    IN  Vec(RSub(vector.x, RMul(dotProduct, normal.x)),
            RSub(vector.y, RMul(dotProduct, normal.y)))

reflect(vector, normal) ==
    LET dotProduct == RMul(R(2), dot(vector, normal))
    IN  Vec(RSub(vector.x, RMul(dotProduct, normal.x)),
            RSub(vector.y, RMul(dotProduct, normal.y)))

distanceSquared(p1, p2) ==
    LET dx == RSub(p2.x, p1.x)
        dy == RSub(p2.y, p1.y)
    IN  RAdd(RMul(dx, dx), RMul(dy, dy))

distance(p1, p2) == Sqrt(distanceSquared(p1, p2))

\* point.isPointInCircle(point, circle)
isPointInCircle(point, circle) ==
    LET distSquared == distanceSquared(point, Vec(circle.x, circle.y))
    IN  RLt(distSquared, RMul(circle.radius, circle.radius))

\* The vectors whose length, and the pairs whose distance, are rational.
HasLength(v) == HasSqrt(RAdd(RMul(v.x, v.x), RMul(v.y, v.y)))

HasDistance(p1, p2) == HasSqrt(distanceSquared(p1, p2))

----------------------------------------------------------------------------
(* src/src/physics.ts: the force primitives *)

\* vector.x += force.x * scaler; vector.y += force.y * scaler: the new value
\* of the vector object.
applyForce(vector, force, scaler) ==
    Vec(RAdd(vector.x, RMul(force.x, scaler)),
        RAdd(vector.y, RMul(force.y, scaler)))

applyDamping(vector, damping) ==
    Vec(RMul(vector.x, RSub(R(1), damping)),
        RMul(vector.y, RSub(R(1), damping)))

applyTorque(angularVelocity, torque, scaler) ==
    RAdd(angularVelocity, RMul(torque, scaler))

\* Angles are measured in quarter turns (units of PI/2): the code only adds
\* and scales them, apart from Math.cos and Math.sin, which the model takes
\* at whole quarter turns, where they are rational.
HasCos(angle) == angle[2] = 1

Cos(angle) == LET k == angle[1] % 4
              IN  IF k = 0 THEN R(1) ELSE IF k = 2 THEN R(-1) ELSE R(0)

Sin(angle) == LET k == angle[1] % 4
              IN  IF k = 1 THEN R(1) ELSE IF k = 3 THEN R(-1) ELSE R(0)

fromAngleRadians(angleRadians, len) ==
    Vec(RMul(Cos(angleRadians), len), RMul(Sin(angleRadians), len))

applyAngleForce(vector, angle, force, scaler) ==
    applyForce(vector, fromAngleRadians(angle, force), scaler)

----------------------------------------------------------------------------
(* src/src/physics.ts: the pairwise collision resolver.  An operation on   *)
(* two objects yields the pair <<obj1, obj2>> of their new field values.   *)

separateOwnMass(obj1, obj2) ==
    LET normal == subtract(obj2.position, obj1.position)
        dist == distance(obj1.position, obj2.position)
        overlap == RSub(RAdd(obj1.radius, obj2.radius), dist)
    IN  IF RLe(overlap, R(0)) THEN <<obj1, obj2>>
        ELSE
        LET direction == IF REq(dist, R(0)) THEN V(1, 0)
                         ELSE scale(normal, RDiv(R(1), dist))
            totalMass == RAdd(obj1.mass, obj2.mass)
            correction == scale(direction, overlap)
            obj1Correction == scale(correction, RDiv(obj1.mass, totalMass))
            obj2Correction == scale(correction, RDiv(obj2.mass, totalMass))
        IN  <<[obj1 EXCEPT !.position = subtract(obj1.position, obj1Correction)],
              [obj2 EXCEPT !.position = add(obj2.position, obj2Correction)]>>

\* separate that removes half of the overlap.
separateHalfway(obj1, obj2) ==
    LET normal == subtract(obj2.position, obj1.position)
        dist == distance(obj1.position, obj2.position)
        overlap == RSub(RAdd(obj1.radius, obj2.radius), dist)
    IN  IF RLe(overlap, R(0)) THEN <<obj1, obj2>>
        ELSE
        LET direction == IF REq(dist, R(0)) THEN V(1, 0)
                         ELSE scale(normal, RDiv(R(1), dist))
            totalMass == RAdd(obj1.mass, obj2.mass)
            correction == scale(direction, RDiv(overlap, R(2)))
            obj1Correction == scale(correction, RDiv(obj2.mass, totalMass))
            obj2Correction == scale(correction, RDiv(obj1.mass, totalMass))
        IN  <<[obj1 EXCEPT !.position = subtract(obj1.position, obj1Correction)],
              [obj2 EXCEPT !.position = add(obj2.position, obj2Correction)]>>

\* separate with the fallback direction (0,1).
separateFallbackY(obj1, obj2) ==
    LET normal == subtract(obj2.position, obj1.position)
        dist == distance(obj1.position, obj2.position)
        overlap == RSub(RAdd(obj1.radius, obj2.radius), dist)
    IN  IF RLe(overlap, R(0)) THEN <<obj1, obj2>>
        ELSE
        LET direction == IF REq(dist, R(0)) THEN V(0, 1)
                         ELSE scale(normal, RDiv(R(1), dist))
            totalMass == RAdd(obj1.mass, obj2.mass)
            correction == scale(direction, overlap)
            obj1Correction == scale(correction, RDiv(obj2.mass, totalMass))
            obj2Correction == scale(correction, RDiv(obj1.mass, totalMass))
        IN  <<[obj1 EXCEPT !.position = subtract(obj1.position, obj1Correction)],
              [obj2 EXCEPT !.position = add(obj2.position, obj2Correction)]>>

\* separate(obj1, obj2)
separate(obj1, obj2) ==
    LET normal == subtract(obj2.position, obj1.position)
        dist == distance(obj1.position, obj2.position)
        overlap == RSub(RAdd(obj1.radius, obj2.radius), dist)
    IN  IF RLe(overlap, R(0)) THEN <<obj1, obj2>>
        ELSE
        LET direction == IF REq(dist, R(0)) THEN V(1, 0)
                         ELSE scale(normal, RDiv(R(1), dist))
            totalMass == RAdd(obj1.mass, obj2.mass)
            correction == scale(direction, overlap)
            obj1Correction == scale(correction, RDiv(obj2.mass, totalMass))
            obj2Correction == scale(correction, RDiv(obj1.mass, totalMass))
        IN  <<[obj1 EXCEPT !.position = subtract(obj1.position, obj1Correction)],
              [obj2 EXCEPT !.position = add(obj2.position, obj2Correction)]>>

\* repel without the test for coincident centres.
repelCoincident(obj1, obj2, strength) ==
    LET normal == subtract(obj2.position, obj1.position)
        dist == distance(obj1.position, obj2.position)
        overlap == RSub(RAdd(obj1.radius, obj2.radius), dist)
    IN  IF RLe(overlap, R(0)) THEN <<obj1, obj2>>
        ELSE
        LET direction == scale(normal, RDiv(R(1), dist))
            repulsionForce == RMul(overlap, strength)
            totalMass == RAdd(obj1.mass, obj2.mass)
            obj1Strength == RMul(RDiv(obj2.mass, totalMass), repulsionForce)
            obj2Strength == RMul(RDiv(obj1.mass, totalMass), repulsionForce)
        IN  <<[obj1 EXCEPT !.velocity =
                   subtract(obj1.velocity, scale(direction, obj1Strength))],
              [obj2 EXCEPT !.velocity =
                   add(obj2.velocity, scale(direction, obj2Strength))]>>

\* repel that gives each object the share of its own mass.
repelOwnMass(obj1, obj2, strength) ==
    LET normal == subtract(obj2.position, obj1.position)
        dist == distance(obj1.position, obj2.position)
        overlap == RSub(RAdd(obj1.radius, obj2.radius), dist)
    IN  IF RLe(overlap, R(0)) \/ REq(dist, R(0)) THEN <<obj1, obj2>>
        ELSE
        LET direction == scale(normal, RDiv(R(1), dist))
            repulsionForce == RMul(overlap, strength)
            totalMass == RAdd(obj1.mass, obj2.mass)
            obj1Strength == RMul(RDiv(obj1.mass, totalMass), repulsionForce)
            obj2Strength == RMul(RDiv(obj2.mass, totalMass), repulsionForce)
        IN  <<[obj1 EXCEPT !.velocity =
                   subtract(obj1.velocity, scale(direction, obj1Strength))],
              [obj2 EXCEPT !.velocity =
                   add(obj2.velocity, scale(direction, obj2Strength))]>>

\* repel(obj1, obj2, strength)
repel(obj1, obj2, strength) ==
    LET normal == subtract(obj2.position, obj1.position)
        dist == distance(obj1.position, obj2.position)
        overlap == RSub(RAdd(obj1.radius, obj2.radius), dist)
    IN  IF RLe(overlap, R(0)) \/ REq(dist, R(0)) THEN <<obj1, obj2>>
        ELSE
        LET direction == scale(normal, RDiv(R(1), dist))
            repulsionForce == RMul(overlap, strength)
            totalMass == RAdd(obj1.mass, obj2.mass)
            obj1Strength == RMul(RDiv(obj2.mass, totalMass), repulsionForce)
            obj2Strength == RMul(RDiv(obj1.mass, totalMass), repulsionForce)
        IN  <<[obj1 EXCEPT !.velocity =
                   subtract(obj1.velocity, scale(direction, obj1Strength))],
              [obj2 EXCEPT !.velocity =
                   add(obj2.velocity, scale(direction, obj2Strength))]>>

\* The overlap resolution that ends collide.
resolveOverlap(obj1, obj2, resolveOverlapMode) ==
    IF resolveOverlapMode = "separate" THEN separate(obj1, obj2)
    ELSE IF resolveOverlapMode = "repel" THEN repel(obj1, obj2, R(1))
    ELSE <<obj1, obj2>>

\* impulseStep with the impulse divided by the sum of the masses.
impulseStepMassSum(obj1, obj2, restitution) ==
    LET normal == normalize(subtract(obj2.position, obj1.position))
        relativeVelocity == subtract(obj2.velocity, obj1.velocity)
        velocityAlongNormal == dot(relativeVelocity, normal)
    IN  IF RLe(velocityAlongNormal, R(0))
        THEN LET impulseMagnitude ==
                     RMul(RNeg(RAdd(R(1), restitution)), velocityAlongNormal)
                 impulse ==
                     RDiv(impulseMagnitude, RAdd(obj1.mass, obj2.mass))
                 impulseVector == scale(normal, impulse)
             IN  <<[obj1 EXCEPT !.velocity =
                        subtract(obj1.velocity,
                                 scale(impulseVector, RDiv(R(1), obj1.mass)))],
                   [obj2 EXCEPT !.velocity =
                        add(obj2.velocity,
                            scale(impulseVector, RDiv(R(1), obj2.mass)))]>>
        ELSE <<obj1, obj2>>

\* impulseStep with the restitution left out of the impulse.
impulseStepNoBounce(obj1, obj2, restitution) ==
    LET normal == normalize(subtract(obj2.position, obj1.position))
        relativeVelocity == subtract(obj2.velocity, obj1.velocity)
        velocityAlongNormal == dot(relativeVelocity, normal)
    IN  IF RLe(velocityAlongNormal, R(0))
        THEN LET impulseMagnitude == RNeg(velocityAlongNormal)
                 impulse ==
                     RDiv(impulseMagnitude,
                          RAdd(RDiv(R(1), obj1.mass), RDiv(R(1), obj2.mass)))
                 impulseVector == scale(normal, impulse)
             IN  <<[obj1 EXCEPT !.velocity =
                        subtract(obj1.velocity,
                                 scale(impulseVector, RDiv(R(1), obj1.mass)))],
                   [obj2 EXCEPT !.velocity =
                        add(obj2.velocity,
                            scale(impulseVector, RDiv(R(1), obj2.mass)))]>>
        ELSE <<obj1, obj2>>

\* impulseStep without the test that the objects approach each other.
impulseStepAlways(obj1, obj2, restitution) ==
    LET normal == normalize(subtract(obj2.position, obj1.position))
        relativeVelocity == subtract(obj2.velocity, obj1.velocity)
        velocityAlongNormal == dot(relativeVelocity, normal)
        impulseMagnitude ==
            RMul(RNeg(RAdd(R(1), restitution)), velocityAlongNormal)
        impulse ==
            RDiv(impulseMagnitude,
                 RAdd(RDiv(R(1), obj1.mass), RDiv(R(1), obj2.mass)))
        impulseVector == scale(normal, impulse)
    IN  <<[obj1 EXCEPT !.velocity =
               subtract(obj1.velocity,
                        scale(impulseVector, RDiv(R(1), obj1.mass)))],
          [obj2 EXCEPT !.velocity =
               add(obj2.velocity,
                   scale(impulseVector, RDiv(R(1), obj2.mass)))]>>

\* The impulse step of collide.
impulseStep(obj1, obj2, restitution) ==
    LET normal == normalize(subtract(obj2.position, obj1.position))
        relativeVelocity == subtract(obj2.velocity, obj1.velocity)
        velocityAlongNormal == dot(relativeVelocity, normal)
    IN  IF RLe(velocityAlongNormal, R(0))
        THEN LET impulseMagnitude ==
                     RMul(RNeg(RAdd(R(1), restitution)), velocityAlongNormal)
                 impulse ==
                     RDiv(impulseMagnitude,
                          RAdd(RDiv(R(1), obj1.mass), RDiv(R(1), obj2.mass)))
                 impulseVector == scale(normal, impulse)
             IN  <<[obj1 EXCEPT !.velocity =
                        subtract(obj1.velocity,
                                 scale(impulseVector, RDiv(R(1), obj1.mass)))],
                   [obj2 EXCEPT !.velocity =
                        add(obj2.velocity,
                            scale(impulseVector, RDiv(R(1), obj2.mass)))]>>
        ELSE <<obj1, obj2>>

collide(obj1, obj2, restitution, resolveOverlapMode) ==
    LET hit == impulseStep(obj1, obj2, restitution)
    IN  resolveOverlap(hit[1], hit[2], resolveOverlapMode)

----------------------------------------------------------------------------
(* src/src/PhysicalBody.ts: the fields of a body and their defaults *)

DOWNWARD_GRAVITY == V(0, 980)

DefaultBody ==
    [position |-> V(0, 0), velocity |-> zero, acceleration |-> zero,
     mass |-> R(1), radius |-> R(0), elasticity |-> Norm(8, 10),
     collisionOverlapResolution |-> "separate",
     angle |-> R(0), angularVelocity |-> R(0), angularDrag |-> R(0),
     friction |-> R(0), gravity |-> zero, drag |-> R(0)]

\* new PhysicalBody(props): Object.assign(this, props) over the defaults.
NewBody(props) ==
    [f \in DOMAIN DefaultBody |->
        IF f \in DOMAIN props THEN props[f] ELSE DefaultBody[f]]

BodyIds == {"a", "b"}

OverlapModes == {"separate", "repel", "none"}

NoCall == [op |-> "none"]

\* The last operation, the bodies before it, and the number of operations.
last == hist[Len(hist)].call

pre == IF Len(hist) = 1 THEN bodies ELSE hist[Len(hist) - 1].bodies

steps == Len(hist) - 1

\* The operation just performed joins the history.
Record(call) == hist' = Append(hist, [call |-> call, bodies |-> bodies'])

----------------------------------------------------------------------------
(* The resolver called directly on two collision objects.                  *)

\* The number of resolver calls made on one pair.
MaxResolverCalls == 2

\* The second object's position (the first is at the origin): coincident,
\* one unit away along x, and off-axis at distance 5.
ResolverPositions == {V(0, 0), V(1, 0), V(3, 4)}

\* Pairs of velocities: head-on along x, apart along x, head-on along (3,4),
\* oblique, and at rest.
ResolverVelocities ==
    {<<V(5, 0), V(-5, 0)>>, <<V(-5, 0), V(5, 0)>>, <<V(3, 4), V(-3, -4)>>,
     <<V(1, 2), V(0, -1)>>, <<V(0, 0), V(0, 0)>>}

ResolverMasses == {<<R(1), R(1)>>, <<R(10), R(1)>>}

\* Radii: points (no overlap) and discs of radius 5 and 6.
ResolverRadii == {<<R(0), R(0)>>, <<R(5), R(6)>>}

Restitutions == {R(0), Norm(1, 2), R(1)}

RepelStrengths == {R(1), R(2)}

InitResolver ==
    /\ \E pos \in ResolverPositions, vel \in ResolverVelocities,
          m \in ResolverMasses, r \in ResolverRadii :
          bodies =
              [i \in BodyIds |->
                  IF i = "a"
                  THEN NewBody([velocity |-> vel[1], mass |-> m[1],
                                radius |-> r[1]])
                  ELSE NewBody([position |-> pos, velocity |-> vel[2],
                                mass |-> m[2], radius |-> r[2]])]
    /\ hist = <<[call |-> NoCall, bodies |-> bodies]>>
    /\ shared = {}
    /\ particles = <<>>
    /\ calls = <<>>

\* The objects after an operation that yields the pair out.
Put(i, j, out) == [bodies EXCEPT ![i] = out[1], ![j] = out[2]]

\* physics.collide(a, b, restitution, mode)
Collide(restitution, mode) ==
    /\ steps < MaxResolverCalls
    /\ bodies' = Put("a", "b", collide(bodies["a"], bodies["b"], restitution, mode))
    /\ Record([op |-> "collide", restitution |-> restitution, mode |-> mode])
    /\ UNCHANGED <<shared, calls, particles>>

\* physics.separate(a, b)
Separate ==
    /\ steps < MaxResolverCalls
    /\ bodies' = Put("a", "b", separate(bodies["a"], bodies["b"]))
    /\ Record([op |-> "separate"])
    /\ UNCHANGED <<shared, calls, particles>>

\* physics.repel(a, b, strength)
Repel(strength) ==
    /\ steps < MaxResolverCalls
    /\ bodies' = Put("a", "b", repel(bodies["a"], bodies["b"], strength))
    /\ Record([op |-> "repel", strength |-> strength])
    /\ UNCHANGED <<shared, calls, particles>>

NextResolver ==
    \/ \E restitution \in Restitutions, mode \in OverlapModes :
           Collide(restitution, mode)
    \/ Separate
    \/ \E strength \in RepelStrengths : Repel(strength)

SpecResolver == InitResolver /\ [][NextResolver]_vars

----------------------------------------------------------------------------
(* Properties of the resolver (SpecResolver).  They read the pair before   *)
(* the last call in pre and the pair after it in bodies.                   *)

cross(v1, v2) == RSub(RMul(v1.x, v2.y), RMul(v1.y, v2.x))

\* The collision normal, the velocity along it and the overlap of a pair.
NormalOf(bs) == normalize(subtract(bs["b"].position, bs["a"].position))

VnOf(bs) == dot(subtract(bs["b"].velocity, bs["a"].velocity), NormalOf(bs))

OverlapOf(bs) ==
    RSub(RAdd(bs["a"].radius, bs["b"].radius),
         distance(bs["a"].position, bs["b"].position))

Distinct(bs) == bs["a"].position # bs["b"].position

PositiveMasses(bs) == RGt(bs["a"].mass, R(0)) /\ RGt(bs["b"].mass, R(0))

\* Both velocities lie on the line between the centres and the objects approach.
HeadOn(bs) ==
    /\ Distinct(bs)
    /\ REq(cross(bs["a"].velocity, NormalOf(bs)), R(0))
    /\ REq(cross(bs["b"].velocity, NormalOf(bs)), R(0))
    /\ RLt(VnOf(bs), R(0))

Swapped ==
    /\ bodies["a"].velocity = pre["b"].velocity
    /\ bodies["b"].velocity = pre["a"].velocity

VelocitiesUnchanged ==
    \A i \in BodyIds : bodies[i].velocity = pre[i].velocity

PositionsUnchanged ==
    \A i \in BodyIds : bodies[i].position = pre[i].position

ElasticHeadOn ==
    /\ last.op = "collide"
    /\ last.restitution = R(1)
    /\ pre["a"].mass = pre["b"].mass
    /\ HeadOn(pre)

\* C1, as stated: an elastic head-on collide of two equal masses swaps the two
\* velocities, in every overlap mode.
C1_SwapEveryMode == ElasticHeadOn => Swapped

\* C1, amended: an elastic head-on collide of two equal masses swaps the two
\* velocities when the overlap mode is 'separate' or 'none', or when the
\* objects do not overlap.
C1_Swap ==
    (ElasticHeadOn /\ (last.mode # "repel" \/ RLe(OverlapOf(pre), R(0))))
        => Swapped

\* The spec's example: (5,0) and (-5,0), one unit apart along x, have become
\* (-5,0) and (5,0).
C1_Witness ==
    /\ ElasticHeadOn
    /\ last.mode = "separate"
    /\ pre["b"].position = V(1, 0)
    /\ pre["a"].velocity = V(5, 0)
    /\ pre["b"].velocity = V(-5, 0)
    /\ bodies["a"].velocity = V(-5, 0)
    /\ bodies["b"].velocity = V(5, 0)

Approaching ==
    /\ last.op = "collide"
    /\ last.mode \in {"none", "separate"}
    /\ PositiveMasses(pre)
    /\ Distinct(pre)
    /\ RLe(VnOf(pre), R(0))

\* The velocity of the second object relative to the first, along the normal
\* the pair had before the call.
RelativeAlongNormal(bs) ==
    dot(subtract(bs["b"].velocity, bs["a"].velocity), NormalOf(pre))

\* C2: after collide in mode 'none' or 'separate' on approaching objects with
\* positive masses at distinct positions, the relative velocity along the
\* normal is -restitution * vn; with restitution 0 both objects have the same
\* velocity component along the normal.
C2_NormalVelocity ==
    Approaching =>
        /\ RelativeAlongNormal(bodies) = RMul(RNeg(last.restitution), VnOf(pre))
        /\ last.restitution = R(0) =>
               dot(bodies["a"].velocity, NormalOf(pre))
                   = dot(bodies["b"].velocity, NormalOf(pre))

\* Unequal masses, restitution 0, really approaching: the normal components
\* have become equal.
C2_Witness ==
    /\ Approaching
    /\ last.restitution = R(0)
    /\ pre["a"].mass # pre["b"].mass
    /\ RLt(VnOf(pre), R(0))
    /\ bodies["a"].velocity # pre["a"].velocity
    /\ dot(bodies["a"].velocity, NormalOf(pre))
           = dot(bodies["b"].velocity, NormalOf(pre))

Separating == last.op = "collide" /\ RGt(VnOf(pre), R(0))

\* C3, as stated: collide leaves the velocities of separating objects
\* unchanged in every overlap mode, overlapping or not.
C3_SeparatingEveryMode == Separating => VelocitiesUnchanged

\* C3, amended: collide leaves the velocities of separating objects unchanged
\* when the overlap mode is 'separate' or 'none', or when the objects do not
\* overlap.
C3_Separating ==
    (Separating /\ (last.mode # "repel" \/ RLe(OverlapOf(pre), R(0))))
        => VelocitiesUnchanged

\* Separating objects that overlap, resolved in mode 'separate': moved apart,
\* velocities as before.
C3_Witness ==
    /\ Separating
    /\ last.mode = "separate"
    /\ RGt(OverlapOf(pre), R(0))
    /\ pre["a"].velocity # zero
    /\ ~PositionsUnchanged
    /\ VelocitiesUnchanged

Displacement(i) == subtract(bodies[i].position, pre[i].position)

SeparateCall ==
    \/ last.op = "separate"
    \/ (last.op = "collide" /\ last.mode = "separate")

\* C4: in 'separate' mode overlapping objects move apart along the line
\* between their centres, and mass times displacement is equal and opposite
\* for the two (the mass-weighted centre stays); with masses 10 and 1 and an
\* overlap of 10 the light object moves 10 times as far as the heavy one.
C4_MassWeighted ==
    (SeparateCall /\ PositiveMasses(pre) /\ RGt(OverlapOf(pre), R(0))) =>
        /\ add(scale(Displacement("a"), pre["a"].mass),
               scale(Displacement("b"), pre["b"].mass)) = zero
        /\ Displacement("b") # zero
        /\ Distinct(pre) =>
              /\ REq(cross(Displacement("b"), NormalOf(pre)), R(0))
              /\ RGt(dot(Displacement("b"), NormalOf(pre)), R(0))
        /\ (pre["a"].mass = R(10) /\ pre["b"].mass = R(1)) =>
              length(Displacement("b"))
                  = RMul(R(10), length(Displacement("a")))

\* Masses 10 and 1 overlapping by 10 units have been separated.
C4_Witness ==
    /\ last.op = "separate"
    /\ pre["a"].mass = R(10)
    /\ pre["b"].mass = R(1)
    /\ OverlapOf(pre) = R(10)
    /\ length(Displacement("a")) = Norm(10, 11)
    /\ length(Displacement("b")) = Norm(100, 11)

\* The distance between the centres of a pair.
DistanceOf(bs) == distance(bs["a"].position, bs["b"].position)

RadiusSum(bs) == RAdd(bs["a"].radius, bs["b"].radius)

\* C23: for positive masses, after physics.separate the distance between
\* the centres is max(distance before, radiusA + radiusB); when the overlap
\* radiusA + radiusB - distance is <= 0 both positions are unchanged; the
\* velocities are never changed.
C23_SeparateExact ==
    (last.op = "separate" /\ PositiveMasses(pre)) =>
        /\ DistanceOf(bodies) =
               (IF RGt(RadiusSum(pre), DistanceOf(pre))
                THEN RadiusSum(pre) ELSE DistanceOf(pre))
        /\ RLe(OverlapOf(pre), R(0)) =>
               /\ bodies["a"].position = pre["a"].position
               /\ bodies["b"].position = pre["b"].position
        /\ bodies["a"].velocity = pre["a"].velocity
        /\ bodies["b"].velocity = pre["b"].velocity

\* Discs of radius 5 and 6 with unequal masses, centres 5 apart off the
\* axes, moving, have been separated: the centres are now 11 apart.
C23_Witness ==
    /\ last.op = "separate"
    /\ pre["a"].mass # pre["b"].mass
    /\ pre["b"].position = V(3, 4)
    /\ pre["a"].position = V(0, 0)
    /\ pre["a"].velocity # zero
    /\ RadiusSum(pre) = R(11)
    /\ DistanceOf(bodies) = R(11)
    /\ bodies["a"].position # pre["a"].position
    /\ bodies["b"].position # pre["b"].position

\* The last call is separate on two objects at the same position whose
\* radii add up to more than 0.
SeparateCoincident ==
    /\ last.op = "separate"
    /\ pre["a"].position = pre["b"].position
    /\ RGt(RadiusSum(pre), R(0))

\* The share of the correction that goes to an object: the other object's
\* mass over the total mass.
Share(other) == RDiv(pre[other].mass, RAdd(pre["a"].mass, pre["b"].mass))

\* C24: physics.separate pushes two bodies at identical positions with
\* radiusA + radiusB > 0 apart along the fallback direction (1,0): the first
\* moves in -x by (radiusA + radiusB) * massB / (massA + massB), the second
\* in +x by (radiusA + radiusB) * massA / (massA + massB), the y coordinates
\* are unchanged and no coordinate is NaN.  Masses are positive, as the data
\* model requires.
C24_FallbackDirection ==
    (SeparateCoincident /\ PositiveMasses(pre)) =>
        /\ bodies["a"].position.x =
               RSub(pre["a"].position.x, RMul(RadiusSum(pre), Share("b")))
        /\ bodies["b"].position.x =
               RAdd(pre["b"].position.x, RMul(RadiusSum(pre), Share("a")))
        /\ bodies["a"].position.y = pre["a"].position.y
        /\ bodies["b"].position.y = pre["b"].position.y
        /\ \A i \in BodyIds :
              /\ ~IsNaN(bodies[i].position.x)
              /\ ~IsNaN(bodies[i].position.y)
              /\ ~IsNaN(bodies[i].velocity.x)
              /\ ~IsNaN(bodies[i].velocity.y)

\* Discs of radius 5 and 6 and masses 10 and 1, both at the origin, have
\* been separated: the heavy one is at (-1,0), the light one at (10,0).
C24_Witness ==
    /\ SeparateCoincident
    /\ pre["a"].mass = R(10)
    /\ pre["b"].mass = R(1)
    /\ bodies["a"].position = V(-1, 0)
    /\ bodies["b"].position = V(10, 0)

\* The push repel gives to an object of the pair before the call: direction
\* * overlap * strength * (mass of the other) / (massA + massB).
RepelPush(other) ==
    scale(NormalOf(pre),
          RMul(RMul(OverlapOf(pre), last.strength), Share(other)))

\* C25: physics.repel never changes a position; when the objects overlap
\* (overlap > 0) and their centres are distinct it subtracts direction *
\* overlap * strength * massB / (massA + massB) from the first velocity and
\* adds direction * overlap * strength * massA / (massA + massB) to the
\* second, direction being the unit vector from the first to the second;
\* when overlap <= 0 or the distance is 0 it changes nothing at all.
C25_RepelVelocityOnly ==
    last.op = "repel" =>
        /\ PositionsUnchanged
        /\ IF RGt(OverlapOf(pre), R(0)) /\ RGt(DistanceOf(pre), R(0))
           THEN /\ bodies["a"].velocity =
                       subtract(pre["a"].velocity, RepelPush("b"))
                /\ bodies["b"].velocity =
                       add(pre["b"].velocity, RepelPush("a"))
                /\ bodies = [pre EXCEPT !["a"].velocity = bodies["a"].velocity,
                                        !["b"].velocity = bodies["b"].velocity]
           ELSE bodies = pre

\* Overlapping discs of masses 10 and 1 with distinct centres have been
\* repelled with strength 2: both velocities have changed, no position has.
C25_Witness ==
    /\ last.op = "repel"
    /\ last.strength = R(2)
    /\ RGt(OverlapOf(pre), R(0))
    /\ Distinct(pre)
    /\ pre["a"].mass = R(10)
    /\ pre["b"].mass = R(1)
    /\ bodies["a"].velocity # pre["a"].velocity
    /\ bodies["b"].velocity # pre["b"].velocity
    /\ PositionsUnchanged

\* massA * velA + massB * velB of a pair.
Momentum(bs) ==
    add(scale(bs["a"].velocity, bs["a"].mass),
        scale(bs["b"].velocity, bs["b"].mass))

\* Every call made so far is collide.
OnlyCollide == \A k \in 2..Len(hist) : hist[k].call.op = "collide"

\* C30: physics.collide conserves the total linear momentum of two objects
\* with positive masses, for every restitution and every overlap mode
\* ('separate', 'repel', 'none'): massA * velA + massB * velB is the same
\* vector before and after each call, and so after any sequence of calls.
C30_MomentumConserved ==
    /\ \A k \in 2..Len(hist) :
          (hist[k].call.op = "collide" /\ PositiveMasses(hist[k - 1].bodies))
              => Momentum(hist[k].bodies) = Momentum(hist[k - 1].bodies)
    /\ (OnlyCollide /\ PositiveMasses(hist[1].bodies))
          => Momentum(bodies) = Momentum(hist[1].bodies)

\* Two collide calls on overlapping discs of masses 10 and 1 at distinct
\* positions, the first with an impulse, the second in 'repel' mode: both
\* changed the velocities, and the momentum is the one at the start.
C30_Witness ==
    /\ Len(hist) = 3
    /\ OnlyCollide
    /\ hist[1].bodies["a"].mass = R(10)
    /\ hist[1].bodies["b"].mass = R(1)
    /\ Distinct(hist[1].bodies)
    /\ RGt(OverlapOf(hist[2].bodies), R(0))
    /\ hist[3].call.mode = "repel"
    /\ hist[2].bodies["a"].velocity # hist[1].bodies["a"].velocity
    /\ hist[3].bodies["a"].velocity # hist[2].bodies["a"].velocity
    /\ Momentum(hist[1].bodies) # zero
    /\ Momentum(bodies) = Momentum(hist[1].bodies)

\* The last call is collide on two objects at the same position.
CollideCoincident ==
    /\ last.op = "collide"
    /\ pre["a"].position = pre["b"].position

FiniteVector(v) == IsFinite(v.x) /\ IsFinite(v.y)

FinitePair ==
    \A i \in BodyIds :
        FiniteVector(bodies[i].position) /\ FiniteVector(bodies[i].velocity)

----------------------------------------------------------------------------
(* The pure vector functions, called on a vector and then on their own     *)
(* results.  calls[1] holds the input, every later entry one call.         *)

\* The input vectors have integer coordinates in -MaxCoord..MaxCoord.
MaxCoord == 1

\* The number of calls made in a row.
MaxVectorCalls == 2

VectorInputs == {V(x, y) : x, y \in -MaxCoord..MaxCoord}

\* Normals: four of length 1, and three that are not unit vectors.
Normals ==
    {V(1, 0), V(0, 1), V(0, -1), Vec(Norm(3, 5), Norm(4, 5)),
     V(2, 0), V(1, 1), V(0, 0)}

InitVector ==
    /\ \E v \in VectorInputs : calls = <<[fn |-> "input", ret |-> v]>>
    /\ bodies = [i \in BodyIds |-> DefaultBody]
    /\ hist = <<[call |-> NoCall, bodies |-> bodies]>>
    /\ shared = {}
    /\ particles = <<>>

\* vector.reflect(v, normal), v being the previous result.
Reflect(normal) ==
    /\ Len(calls) <= MaxVectorCalls
    /\ LET v == calls[Len(calls)].ret
       IN  calls' = Append(calls, [fn |-> "reflect", v |-> v, n |-> normal,
                                   ret |-> reflect(v, normal)])
    /\ UNCHANGED <<bodies, hist, shared, particles>>

NextVector == \E normal \in Normals : Reflect(normal)

SpecVector == InitVector /\ [][NextVector]_vars

IsUnit(n) == dot(n, n) = R(1)

\* C5: reflecting twice off the same unit normal gives the vector back, and
\* reflecting (1,1) off (1,0) gives (-1,1).
C5_ReflectTwice ==
    \A i \in 2..Len(calls) :
        calls[i].fn = "reflect" =>
            /\ (calls[i].v = V(1, 1) /\ calls[i].n = V(1, 0)) =>
                   calls[i].ret = V(-1, 1)
            /\ (/\ i < Len(calls)
                /\ calls[i + 1].fn = "reflect"
                /\ calls[i + 1].n = calls[i].n
                /\ IsUnit(calls[i].n)) =>
                   calls[i + 1].ret = calls[i].v

\* (1,1) reflected off (1,0) and the result reflected off (1,0) again.
C5_Witness ==
    /\ Len(calls) = 3
    /\ calls[2] = [fn |-> "reflect", v |-> V(1, 1), n |-> V(1, 0),
                   ret |-> V(-1, 1)]
    /\ calls[3] = [fn |-> "reflect", v |-> V(-1, 1), n |-> V(1, 0),
                   ret |-> V(1, 1)]

----------------------------------------------------------------------------
(* point.isPointInCircle, called by a host on pointer positions and a      *)
(* circle.                                                                 *)

\* The number of isPointInCircle calls the host makes.
MaxPointCalls == 2

\* The coordinates of the pointer: inside, on and outside the circles.
PointCoords == {-3, 0, 3, 4, 6}

PointInputs == {V(x, y) : x, y \in PointCoords}

Circles ==
    {[x |-> R(0), y |-> R(0), radius |-> R(5)],
     [x |-> R(3), y |-> R(0), radius |-> R(3)]}

InitPoint ==
    /\ calls = <<>>
    /\ bodies = [i \in BodyIds |-> DefaultBody]
    /\ hist = <<[call |-> NoCall, bodies |-> bodies]>>
    /\ shared = {}
    /\ particles = <<>>

IsPointInCircle(point, circle) ==
    /\ Len(calls) < MaxPointCalls
    /\ calls' = Append(calls, [fn |-> "isPointInCircle", point |-> point,
                               circle |-> circle,
                               ret |-> isPointInCircle(point, circle)])
    /\ UNCHANGED <<bodies, hist, shared, particles>>

NextPoint ==
    \E point \in PointInputs, circle \in Circles :
        IsPointInCircle(point, circle)

SpecPoint == InitPoint /\ [][NextPoint]_vars

\* C21: isPointInCircle returns true for every point whose distance from
\* the centre of the circle is less than or equal to the radius, the points
\* on the boundary included ((3,4) for the circle of radius 5 at (0,0)), and
\* false for every point farther away.
C21_BoundaryInside ==
    \A k \in 1..Len(calls) :
        calls[k].fn = "isPointInCircle" =>
            (calls[k].ret <=>
                RLe(distanceSquared(calls[k].point,
                                    Vec(calls[k].circle.x,
                                        calls[k].circle.y)),
                    RMul(calls[k].circle.radius, calls[k].circle.radius)))

----------------------------------------------------------------------------
(* src/src/PhysicalBody.ts: the methods of a body.  A method works on the  *)
(* pair st = [bs |-> the bodies, sh |-> the shared vector fields] and      *)
(* yields the pair after it.  The code writes a vector field in two ways:  *)
(* in place (physics.applyForce(this.velocity, ...)), which every body     *)
(* holding that object sees, and by assigning a new object                 *)
(* (this.acceleration = vector.zero()), which ends the sharing.            *)

\* A write into the object that field f of body i holds.
Mutate(st, i, f, val) ==
    [st EXCEPT !.bs = [j \in BodyIds |->
                          IF j = i \/ f \in st.sh
                          THEN [st.bs[j] EXCEPT ![f] = val]
                          ELSE st.bs[j]]]

\* this.f = val, val a new object.
Assign(st, i, f, val) ==
    [bs |-> [st.bs EXCEPT ![i][f] = val], sh |-> st.sh \ {f}]

\* update that keeps the accumulated acceleration.
Body_updateKeepForces(st, i, deltaTime) ==
    LET this == st.bs[i]
        \* physics.applyForce(this.acceleration, this.gravity)
        acceleration == applyForce(this.acceleration, this.gravity, R(1))
        \* the two dampings and physics.applyForce(this.velocity, ...)
        slowed == IF RGt(this.friction, R(0))
                  THEN applyDamping(this.velocity, this.friction)
                  ELSE this.velocity
        damped == IF RGt(this.drag, R(0))
                  THEN applyDamping(slowed, this.drag)
                  ELSE slowed
        velocity == applyForce(damped, acceleration, deltaTime)
        \* physics.applyForce(this.position, this.velocity, deltaTime)
        position == applyForce(this.position, velocity, deltaTime)
        angle == RAdd(this.angle, RMul(this.angularVelocity, deltaTime))
        \* the three vectors are written in place: a body sharing one of the
        \* objects sees the write
        seen(j) ==
            [st.bs[j] EXCEPT
                !.acceleration =
                    IF "acceleration" \in st.sh THEN acceleration ELSE @,
                !.velocity = IF "velocity" \in st.sh THEN velocity ELSE @,
                !.position = IF "position" \in st.sh THEN position ELSE @]
    IN  [bs |-> [j \in BodyIds |->
                    IF j = i
                    THEN [this EXCEPT !.acceleration = acceleration,
                                      !.velocity = velocity,
                                      !.position = position,
                                      !.angle = angle,
                                      !.angularVelocity = R(0)]
                    ELSE seen(j)],
         sh |-> st.sh]

\* update that advances the position with the velocity before the step.
Body_updateOldVelocity(st, i, deltaTime) ==
    LET this == st.bs[i]
        \* physics.applyForce(this.acceleration, this.gravity)
        acceleration == applyForce(this.acceleration, this.gravity, R(1))
        \* the two dampings and physics.applyForce(this.velocity, ...)
        slowed == IF RGt(this.friction, R(0))
                  THEN applyDamping(this.velocity, this.friction)
                  ELSE this.velocity
        damped == IF RGt(this.drag, R(0))
                  THEN applyDamping(slowed, this.drag)
                  ELSE slowed
        velocity == applyForce(damped, acceleration, deltaTime)
        \* physics.applyForce(this.position, this.velocity, deltaTime)
        position == applyForce(this.position, this.velocity, deltaTime)
        angle == RAdd(this.angle, RMul(this.angularVelocity, deltaTime))
        \* the three vectors are written in place: a body sharing one of the
        \* objects sees the write
        seen(j) ==
            [st.bs[j] EXCEPT
                !.acceleration =
                    IF "acceleration" \in st.sh THEN acceleration ELSE @,
                !.velocity = IF "velocity" \in st.sh THEN velocity ELSE @,
                !.position = IF "position" \in st.sh THEN position ELSE @]
    IN  [bs |-> [j \in BodyIds |->
                    IF j = i
                    THEN [this EXCEPT !.acceleration = zero,
                                      !.velocity = velocity,
                                      !.position = position,
                                      !.angle = angle,
                                      !.angularVelocity = R(0)]
                    ELSE seen(j)],
         sh |-> st.sh \ {"acceleration"}]

\* update without the reset of the angular velocity.
Body_updateKeepSpin(st, i, deltaTime) ==
    LET this == st.bs[i]
        \* physics.applyForce(this.acceleration, this.gravity)
        acceleration == applyForce(this.acceleration, this.gravity, R(1))
        \* the two dampings and physics.applyForce(this.velocity, ...)
        slowed == IF RGt(this.friction, R(0))
                  THEN applyDamping(this.velocity, this.friction)
                  ELSE this.velocity
        damped == IF RGt(this.drag, R(0))
                  THEN applyDamping(slowed, this.drag)
                  ELSE slowed
        velocity == applyForce(damped, acceleration, deltaTime)
        \* physics.applyForce(this.position, this.velocity, deltaTime)
        position == applyForce(this.position, velocity, deltaTime)
        angle == RAdd(this.angle, RMul(this.angularVelocity, deltaTime))
        \* the three vectors are written in place: a body sharing one of the
        \* objects sees the write
        seen(j) ==
            [st.bs[j] EXCEPT
                !.acceleration =
                    IF "acceleration" \in st.sh THEN acceleration ELSE @,
                !.velocity = IF "velocity" \in st.sh THEN velocity ELSE @,
                !.position = IF "position" \in st.sh THEN position ELSE @]
    IN  [bs |-> [j \in BodyIds |->
                    IF j = i
                    THEN [this EXCEPT !.acceleration = zero,
                                      !.velocity = velocity,
                                      !.position = position,
                                      !.angle = angle,
                                      !.angularVelocity = this.angularVelocity]
                    ELSE seen(j)],
         sh |-> st.sh \ {"acceleration"}]

\* update(deltaTime).  The angular drag is applied to a value that the last
\* line overwrites with 0, so it leaves no trace; this.acceleration gets a new
\* object, which ends any sharing of it.
Body_update(st, i, deltaTime) ==
    LET this == st.bs[i]
        \* physics.applyForce(this.acceleration, this.gravity)
        acceleration == applyForce(this.acceleration, this.gravity, R(1))
        \* the two dampings and physics.applyForce(this.velocity, ...)
        slowed == IF RGt(this.friction, R(0))
                  THEN applyDamping(this.velocity, this.friction)
                  ELSE this.velocity
        damped == IF RGt(this.drag, R(0))
                  THEN applyDamping(slowed, this.drag)
                  ELSE slowed
        velocity == applyForce(damped, acceleration, deltaTime)
        \* physics.applyForce(this.position, this.velocity, deltaTime)
        position == applyForce(this.position, velocity, deltaTime)
        angle == RAdd(this.angle, RMul(this.angularVelocity, deltaTime))
        \* the three vectors are written in place: a body sharing one of the
        \* objects sees the write
        seen(j) ==
            [st.bs[j] EXCEPT
                !.acceleration =
                    IF "acceleration" \in st.sh THEN acceleration ELSE @,
                !.velocity = IF "velocity" \in st.sh THEN velocity ELSE @,
                !.position = IF "position" \in st.sh THEN position ELSE @]
    IN  [bs |-> [j \in BodyIds |->
                    IF j = i
                    THEN [this EXCEPT !.acceleration = zero,
                                      !.velocity = velocity,
                                      !.position = position,
                                      !.angle = angle,
                                      !.angularVelocity = R(0)]
                    ELSE seen(j)],
         sh |-> st.sh \ {"acceleration"}]

\* applyForce with the force multiplied by the mass.
Body_applyForceTimesMass(st, i, force) ==
    Mutate(st, i, "acceleration",
           applyForce(st.bs[i].acceleration, force, st.bs[i].mass))

\* applyForce(force)
Body_applyForce(st, i, force) ==
    Mutate(st, i, "acceleration",
           applyForce(st.bs[i].acceleration, force, RDiv(R(1), st.bs[i].mass)))

\* applyImpulse(impulse)
Body_applyImpulse(st, i, impulse) ==
    Mutate(st, i, "velocity",
           applyForce(st.bs[i].velocity, impulse, RDiv(R(1), st.bs[i].mass)))

\* applyTorque(torque)
Body_applyTorque(st, i, torque) ==
    [st EXCEPT !.bs[i].angularVelocity =
         applyTorque(st.bs[i].angularVelocity, torque,
                     RDiv(R(1), st.bs[i].mass))]

\* thrust(force, angle)
Body_thrust(st, i, force, angle) ==
    Mutate(st, i, "acceleration",
           applyAngleForce(st.bs[i].acceleration, angle, force, st.bs[i].mass))

\* The test with < in place of <=: bodies that just touch do not collide.
TouchingStrict(st, i, j) ==
    /\ i # j
    /\ RLt(distance(st.bs[j].position, st.bs[i].position),
           RAdd(st.bs[i].radius, st.bs[j].radius))

\* The test that opens collideWithBody: true when it goes on to collide.
Touching(st, i, j) ==
    /\ i # j
    /\ ~RGt(distance(st.bs[j].position, st.bs[i].position),
            RAdd(st.bs[i].radius, st.bs[j].radius))

\* The vector fields collide assigns new objects to: the velocities when the
\* impulse or the repulsion is applied, the positions when separate moves.
Assigned(obj1, obj2, mode) ==
    LET vn == dot(subtract(obj2.velocity, obj1.velocity),
                  normalize(subtract(obj2.position, obj1.position)))
        dist == distance(obj1.position, obj2.position)
        overlap == RSub(RAdd(obj1.radius, obj2.radius), dist)
    IN  (IF RLe(vn, R(0)) \/ (/\ mode = "repel"
                              /\ ~(RLe(overlap, R(0)) \/ REq(dist, R(0))))
         THEN {"velocity"} ELSE {})
        \cup
        (IF mode = "separate" /\ ~RLe(overlap, R(0))
         THEN {"position"} ELSE {})

\* collideWithBody with the overlap mode of the other body.
Body_collideWithBodyOtherMode(st, i, j) ==
    IF ~Touching(st, i, j) THEN st
    ELSE LET restitution == RMul(st.bs[i].elasticity, st.bs[j].elasticity)
             mode == st.bs[j].collisionOverlapResolution
             out == collide(st.bs[i], st.bs[j], restitution, mode)
         IN  [bs |-> [st.bs EXCEPT ![i] = out[1], ![j] = out[2]],
              sh |-> st.sh \ Assigned(st.bs[i], st.bs[j], mode)]

\* collideWithBody(other): the pair after it; Touching is its return value.
Body_collideWithBody(st, i, j) ==
    IF ~Touching(st, i, j) THEN st
    ELSE LET restitution == RMul(st.bs[i].elasticity, st.bs[j].elasticity)
             mode == st.bs[i].collisionOverlapResolution
             out == collide(st.bs[i], st.bs[j], restitution, mode)
         IN  [bs |-> [st.bs EXCEPT ![i] = out[1], ![j] = out[2]],
              sh |-> st.sh \ Assigned(st.bs[i], st.bs[j], mode)]

\* collideWithSurface that does not scale the reflected velocity.
Body_collideWithSurfaceElastic(st, i, point, normal) ==
    LET n == normalize(normal)
        d == dot(subtract(st.bs[i].position, point), n)
    IN  IF RGe(d, st.bs[i].radius) THEN st
        ELSE LET s1 == Assign(st, i, "position",
                              add(st.bs[i].position,
                                  scale(n, RSub(st.bs[i].radius, d))))
             IN  Assign(s1, i, "velocity", reflect(s1.bs[i].velocity, n))

\* collideWithSurface without the early return.
Body_collideWithSurfaceAlways(st, i, point, normal) ==
    LET n == normalize(normal)
        d == dot(subtract(st.bs[i].position, point), n)
    IN  LET s1 == Assign(st, i, "position",
                         add(st.bs[i].position,
                             scale(n, RSub(st.bs[i].radius, d))))
        IN  Assign(s1, i, "velocity",
                   scale(reflect(s1.bs[i].velocity, n),
                         s1.bs[i].elasticity))

\* collideWithSurface(point, normal)
Body_collideWithSurface(st, i, point, normal) ==
    LET n == normalize(normal)
        d == dot(subtract(st.bs[i].position, point), n)
    IN  IF RGe(d, st.bs[i].radius) THEN st
        ELSE LET s1 == Assign(st, i, "position",
                              add(st.bs[i].position,
                                  scale(n, RSub(st.bs[i].radius, d))))
             IN  Assign(s1, i, "velocity",
                        scale(reflect(s1.bs[i].velocity, n),
                              s1.bs[i].elasticity))

\* set x(value): this.position.x = value
Body_setX(st, i, value) ==
    Mutate(st, i, "position", [st.bs[i].position EXCEPT !.x = value])

\* set y(value): this.position.y = value
Body_setY(st, i, value) ==
    Mutate(st, i, "position", [st.bs[i].position EXCEPT !.y = value])

\* body.gravity.y = value, written by the host into the public field.
Body_setGravityY(st, i, value) ==
    Mutate(st, i, "gravity", [st.bs[i].gravity EXCEPT !.y = value])

----------------------------------------------------------------------------
(* Two bodies driven by a host: it applies forces to body a, steps both    *)
(* bodies and collides them with each other and with surfaces.             *)

\* The number of operations the host performs.
MaxSteps == 3

\* The bodies the host constructs.  Body a: a default disc; a heavy disc
\* with no gravity and no damping; a heavy disc with gravity and every
\* damping.  Body b: overlapping a, touching a, and away from a.
PropsA ==
    {[radius |-> R(1)],
     [radius |-> R(1), mass |-> R(2), velocity |-> V(3, 0),
      collisionOverlapResolution |-> "none"],
     [radius |-> R(1), mass |-> R(2), velocity |-> V(1, 0),
      gravity |-> V(0, 10), friction |-> Norm(1, 2), drag |-> Norm(1, 4),
      angularDrag |-> Norm(1, 2), elasticity |-> Norm(1, 2),
      collisionOverlapResolution |-> "repel"]}

PropsB ==
    {[position |-> V(1, 0), radius |-> R(1), velocity |-> V(-1, 0)],
     [position |-> V(2, 0), radius |-> R(1), mass |-> R(2),
      elasticity |-> R(1), collisionOverlapResolution |-> "repel"],
     [position |-> V(3, 4), radius |-> R(1), gravity |-> V(0, 10),
      collisionOverlapResolution |-> "none"]}

\* The vector fields for which the host passes one object to both bodies.
SharedChoices == {{}}

\* The bodies the host applies forces to.
Driven == {"a"}

DeltaTimes == {Norm(1, 2)}

Forces == {V(2, 0)}

Impulses == {V(0, -4)}

Torques == {R(4)}

ThrustForces == {R(3)}

ThrustAngles == {R(1)}

\* Surfaces, as <<point, normal>>: a floor below the bodies, with a normal
\* that is not normalised, and a wall through the origin.
Surfaces == {<<V(0, 1), V(0, -2)>>, <<V(0, 0), V(1, 0)>>}

Init ==
    /\ \E pa \in PropsA, pb \in PropsB, sh \in SharedChoices :
          /\ bodies =
                 [i \in BodyIds |->
                     IF i = "a" THEN NewBody(pa)
                     ELSE [f \in DOMAIN DefaultBody |->
                              IF f \in sh THEN NewBody(pa)[f]
                              ELSE NewBody(pb)[f]]]
          /\ shared = sh
    /\ hist = <<[call |-> NoCall, bodies |-> bodies]>>
    /\ calls = <<>>
    /\ particles = <<>>

Now == [bs |-> bodies, sh |-> shared]

\* The state after a method that yields the pair out.
Becomes(out) == bodies' = out.bs /\ shared' = out.sh

Update(i, deltaTime) ==
    /\ steps < MaxSteps
    /\ Becomes(Body_update(Now, i, deltaTime))
    /\ Record([op |-> "update", body |-> i, deltaTime |-> deltaTime])
    /\ UNCHANGED <<calls, particles>>

ApplyForce(i, force) ==
    /\ steps < MaxSteps
    /\ Becomes(Body_applyForce(Now, i, force))
    /\ Record([op |-> "applyForce", body |-> i, force |-> force])
    /\ UNCHANGED <<calls, particles>>

ApplyImpulse(i, impulse) ==
    /\ steps < MaxSteps
    /\ Becomes(Body_applyImpulse(Now, i, impulse))
    /\ Record([op |-> "applyImpulse", body |-> i, impulse |-> impulse])
    /\ UNCHANGED <<calls, particles>>

ApplyTorque(i, torque) ==
    /\ steps < MaxSteps
    /\ Becomes(Body_applyTorque(Now, i, torque))
    /\ Record([op |-> "applyTorque", body |-> i, torque |-> torque])
    /\ UNCHANGED <<calls, particles>>

\* thrust(force) in the direction the body faces, or thrust(force, angle).
Thrust(i, force, angle) ==
    /\ steps < MaxSteps
    /\ HasCos(angle)
    /\ Becomes(Body_thrust(Now, i, force, angle))
    /\ Record([op |-> "thrust", body |-> i, force |-> force, angle |-> angle])
    /\ UNCHANGED <<calls, particles>>

CollideWithBody(i, j) ==
    /\ steps < MaxSteps
    /\ HasDistance(bodies[j].position, bodies[i].position)
    /\ Becomes(Body_collideWithBody(Now, i, j))
    /\ Record([op |-> "collideWithBody", body |-> i, other |-> j,
               ret |-> Touching(Now, i, j)])
    /\ UNCHANGED <<calls, particles>>

CollideWithSurface(i, point, normal) ==
    /\ steps < MaxSteps
    /\ Becomes(Body_collideWithSurface(Now, i, point, normal))
    /\ Record([op |-> "collideWithSurface", body |-> i, point |-> point,
               normal |-> normal])
    /\ UNCHANGED <<calls, particles>>

Next ==
    \/ \E i \in BodyIds, deltaTime \in DeltaTimes : Update(i, deltaTime)
    \/ \E i \in Driven, force \in Forces : ApplyForce(i, force)
    \/ \E i \in Driven, impulse \in Impulses : ApplyImpulse(i, impulse)
    \/ \E i \in Driven, torque \in Torques : ApplyTorque(i, torque)
    \/ \E i \in Driven, force \in ThrustForces :
           \E angle \in ThrustAngles \cup {bodies[i].angle} :
               Thrust(i, force, angle)
    \/ \E i, j \in BodyIds : CollideWithBody(i, j)
    \/ \E i \in Driven, s \in Surfaces : CollideWithSurface(i, s[1], s[2])

Spec == Init /\ [][Next]_vars

----------------------------------------------------------------------------
(* Properties of the body (Spec) *)

\* C6: after every update call the acceleration of the updated body is
\* exactly (0,0), whatever operations came before and whatever its gravity.
C6_AccelerationReset ==
    last.op = "update" => bodies[last.body].acceleration = zero

\* An update of a body with gravity that had a force pending.
C6_Witness ==
    /\ last.op = "update"
    /\ pre[last.body].acceleration # zero
    /\ pre[last.body].gravity # zero
    /\ bodies[last.body].velocity # pre[last.body].velocity
    /\ bodies[last.body].acceleration = zero

\* C18: after every update call the angular velocity of the updated body is
\* exactly 0, whatever torque was applied before and whatever its angular
\* drag and mass are, and the angle has advanced by the angular velocity
\* before the step times deltaTime.
C18_SpinReset ==
    last.op = "update" =>
        /\ bodies[last.body].angularVelocity = R(0)
        /\ bodies[last.body].angle =
               RAdd(pre[last.body].angle,
                    RMul(pre[last.body].angularVelocity, last.deltaTime))

\* An update of a heavy body with angular drag that was spinning after a
\* torque: it has turned and no longer spins.
C18_Witness ==
    /\ last.op = "update"
    /\ pre[last.body].angularVelocity # R(0)
    /\ RGt(pre[last.body].angularDrag, R(0))
    /\ pre[last.body].mass # R(1)
    /\ bodies[last.body].angle # pre[last.body].angle
    /\ bodies[last.body].angularVelocity = R(0)

\* The signed distance of the centre of body b from the plane through point
\* with this normal, along the unit normal.
SurfaceDistance(b, point, normal) ==
    dot(subtract(b.position, point), normalize(normal))

\* The last call is collideWithSurface.
SurfaceEntry == last.op = "collideWithSurface"

\* The body of the last call did not penetrate the plane before the call.
Clear == RGe(SurfaceDistance(pre[last.body], last.point, last.normal),
             pre[last.body].radius)

\* C19: collideWithSurface changes neither the position nor the velocity of
\* a body that does not penetrate the plane (d >= radius), even when the body
\* is moving towards the surface.
C19_ClearIsNoOp ==
    (SurfaceEntry /\ Clear) =>
        /\ bodies[last.body].position = pre[last.body].position
        /\ bodies[last.body].velocity = pre[last.body].velocity
        /\ bodies = pre

\* A collideWithSurface call on a body clear of the plane and moving towards
\* it: nothing has changed.
C19_Witness ==
    /\ SurfaceEntry
    /\ Clear
    /\ RLt(dot(pre[last.body].velocity, normalize(last.normal)), R(0))
    /\ bodies = pre

\* The factor a damping coefficient leaves of the velocity: the damping is
\* applied only if the coefficient is > 0.
Kept(coefficient) ==
    IF RGt(coefficient, R(0)) THEN RSub(R(1), coefficient) ELSE R(1)

\* velocity * (1 - friction) * (1 - drag) + (a + gravity) * dt for body b
SteppedVelocity(b, dt) ==
    add(scale(b.velocity, RMul(Kept(b.friction), Kept(b.drag))),
        scale(add(b.acceleration, b.gravity), dt))

\* C22: one update(dt) step computes velocity' = velocity * (1 - friction) *
\* (1 - drag) + (a + gravity) * dt from the state before the step, a damping
\* factor applied only if its coefficient is > 0 and gravity not scaled by
\* the mass, and position' = position + velocity' * dt.
C22_UpdateStep ==
    last.op = "update" =>
        /\ bodies[last.body].velocity =
               SteppedVelocity(pre[last.body], last.deltaTime)
        /\ bodies[last.body].position =
               add(pre[last.body].position,
                   scale(SteppedVelocity(pre[last.body], last.deltaTime),
                         last.deltaTime))

\* An update of a heavy body with friction, drag, gravity and a pending
\* force: velocity and position have both changed.
C22_Witness ==
    /\ last.op = "update"
    /\ RGt(pre[last.body].friction, R(0))
    /\ RGt(pre[last.body].drag, R(0))
    /\ pre[last.body].gravity # zero
    /\ pre[last.body].acceleration # zero
    /\ pre[last.body].mass # R(1)
    /\ bodies[last.body].velocity # pre[last.body].velocity
    /\ bodies[last.body].position # pre[last.body].position

\* Entry k of the history is applyForce on a body with no gravity, friction
\* or drag and no force pending, and the next two entries update that body.
ForceThenTwoUpdates(k) ==
    /\ k >= 2
    /\ k + 2 <= Len(hist)
    /\ hist[k].call.op = "applyForce"
    /\ hist[k + 1].call.op = "update"
    /\ hist[k + 2].call.op = "update"
    /\ hist[k + 1].call.body = hist[k].call.body
    /\ hist[k + 2].call.body = hist[k].call.body
    /\ LET b == hist[k - 1].bodies[hist[k].call.body]
       IN  /\ b.gravity = zero
           /\ b.friction = R(0)
           /\ b.drag = R(0)
           /\ b.acceleration = zero

\* C7: a force applied once affects only the next update: the first update
\* after applyForce(f) adds (f / mass) * deltaTime to the velocity and the
\* second leaves the velocity as the first left it.
C7_ForceOnce ==
    \A k \in 1..Len(hist) :
        ForceThenTwoUpdates(k) =>
            LET i == hist[k].call.body
                before == hist[k].bodies[i]
            IN  /\ hist[k + 1].bodies[i].velocity
                       = add(before.velocity,
                             scale(scale(hist[k].call.force,
                                         RDiv(R(1), before.mass)),
                                   hist[k + 1].call.deltaTime))
                /\ hist[k + 2].bodies[i].velocity
                       = hist[k + 1].bodies[i].velocity

\* The force (2,0) on the body of mass 2 moving at (3,0): (7/2,0) after the
\* first update of half a second and after the second.
C7_Witness ==
    /\ ForceThenTwoUpdates(2)
    /\ hist[1].bodies["a"].mass = R(2)
    /\ hist[1].bodies["a"].velocity = V(3, 0)
    /\ hist[3].bodies["a"].velocity = Vec(Norm(7, 2), R(0))
    /\ hist[4].bodies["a"].velocity = Vec(Norm(7, 2), R(0))
    /\ hist[4].bodies["a"].position # hist[3].bodies["a"].position

\* Entry k of the history is a.collideWithBody(b) on bodies whose centres
\* are dist apart.
CollideEntry(k, a, b, dist) ==
    /\ hist[k].call.op = "collideWithBody"
    /\ hist[k].call.body = a
    /\ hist[k].call.other = b
    /\ distance(hist[k - 1].bodies[b].position,
                hist[k - 1].bodies[a].position) = dist

\* C13: collideWithBody(other) returns true exactly when other is another
\* body and the distance between the centres is at most the sum of the
\* radii; when it returns false no position and no velocity has changed.
C13_CollideWithBodyReturn ==
    last.op = "collideWithBody" =>
        /\ last.ret <=>
               /\ last.other # last.body
               /\ RLe(distance(pre[last.other].position,
                               pre[last.body].position),
                      RAdd(pre[last.body].radius, pre[last.other].radius))
        /\ ~last.ret =>
               \A i \in BodyIds :
                   /\ bodies[i].position = pre[i].position
                   /\ bodies[i].velocity = pre[i].velocity

\* a.collideWithBody(a) returned false; then a.collideWithBody(b), with the
\* two discs of radius 1 at distance 2, returned true and changed the
\* velocity of a.
C13_Witness ==
    /\ Len(hist) = 3
    /\ CollideEntry(2, "a", "a", R(0))
    /\ ~hist[2].call.ret
    /\ hist[2].bodies = hist[1].bodies
    /\ CollideEntry(3, "a", "b", R(2))
    /\ hist[1].bodies["a"].radius = R(1)
    /\ hist[1].bodies["b"].radius = R(1)
    /\ hist[3].call.ret
    /\ hist[3].bodies["a"].velocity # hist[2].bodies["a"].velocity

\* What physics.collide makes of the receiver and the other body of the
\* last call, with the product of the two elasticities as restitution and
\* the overlap mode of the receiver.
ReceiverCollide ==
    collide(pre[last.body], pre[last.other],
            RMul(pre[last.body].elasticity, pre[last.other].elasticity),
            pre[last.body].collisionOverlapResolution)

\* C29: a collideWithBody call that returns true resolves the pair with
\* restitution this.elasticity * other.elasticity and the overlap mode of
\* the receiver; the overlap mode of the other body has no part in it.
C29_ReceiverMode ==
    (last.op = "collideWithBody" /\ last.ret) =>
        /\ bodies[last.body] = ReceiverCollide[1]
        /\ bodies[last.other] = ReceiverCollide[2]

\* Two overlapping bodies with different overlap modes and elasticities
\* below 1 have collided, and the call made the other way round would have
\* left other positions or velocities.
C29_Witness ==
    /\ last.op = "collideWithBody"
    /\ last.ret
    /\ pre[last.body].collisionOverlapResolution
           # pre[last.other].collisionOverlapResolution
    /\ pre[last.body].elasticity # R(1)
    /\ pre[last.other].elasticity # R(1)
    /\ bodies # pre
    /\ \E i \in BodyIds :
          \/ Body_collideWithBody([bs |-> pre, sh |-> {}], last.other,
                                  last.body).bs[i].position
                 # bodies[i].position
          \/ Body_collideWithBody([bs |-> pre, sh |-> {}], last.other,
                                  last.body).bs[i].velocity
                 # bodies[i].velocity

\* C15: thrust(force, angle) on a body of mass m adds
\* (cos(angle) * force, sin(angle) * force) / m to the acceleration, the
\* change applyForce makes with that vector, and changes nothing else.
C15_ThrustOverMass ==
    last.op = "thrust" =>
        /\ bodies[last.body].acceleration
               = Body_applyForce([bs |-> pre, sh |-> {}], last.body,
                                 fromAngleRadians(last.angle, last.force))
                     .bs[last.body].acceleration
        /\ bodies[last.body].acceleration
               = add(pre[last.body].acceleration,
                     scale(fromAngleRadians(last.angle, last.force),
                           RDiv(R(1), pre[last.body].mass)))
        /\ bodies = [pre EXCEPT ![last.body].acceleration
                                    = bodies[last.body].acceleration]

----------------------------------------------------------------------------
(* What the constructor lets through: it copies the props it is given      *)
(* onto the body, whatever they are.  The host builds body a and body b    *)
(* with some of the vector objects of a, or with objects of its own, and   *)
(* with any number as the mass of a; then it steps the bodies, writes      *)
(* through the x and y setters and into the gravity, applies forces and    *)
(* collides the two.                                                       *)

\* The vector fields in which b is given the object that a is given.
SharedProps == {{}, {"position"}, {"gravity"}, {"velocity", "gravity"}}

PropsMasses == {R(1), R(0), R(-2)}

SetterValues == {R(7)}

InitProps ==
    /\ \E m \in PropsMasses, sh \in SharedProps :
          LET pa == [position |-> V(0, 0), velocity |-> V(1, 0),
                     gravity |-> DOWNWARD_GRAVITY, radius |-> R(1),
                     mass |-> m]
              pb == [position |-> V(1, 0), velocity |-> V(-1, 0),
                     radius |-> R(1)]
          IN  /\ bodies =
                     [i \in BodyIds |->
                         IF i = "a" THEN NewBody(pa)
                         ELSE [f \in DOMAIN DefaultBody |->
                                  IF f \in sh THEN NewBody(pa)[f]
                                  ELSE NewBody(pb)[f]]]
              /\ shared = sh
    /\ hist = <<[call |-> NoCall, bodies |-> bodies]>>
    /\ calls = <<>>
    /\ particles = <<>>

SetX(i, value) ==
    /\ steps < MaxSteps
    /\ Becomes(Body_setX(Now, i, value))
    /\ Record([op |-> "setX", body |-> i, value |-> value])
    /\ UNCHANGED <<calls, particles>>

SetY(i, value) ==
    /\ steps < MaxSteps
    /\ Becomes(Body_setY(Now, i, value))
    /\ Record([op |-> "setY", body |-> i, value |-> value])
    /\ UNCHANGED <<calls, particles>>

SetGravityY(i, value) ==
    /\ steps < MaxSteps
    /\ Becomes(Body_setGravityY(Now, i, value))
    /\ Record([op |-> "setGravityY", body |-> i, value |-> value])
    /\ UNCHANGED <<calls, particles>>

NextProps ==
    \/ \E i \in BodyIds, deltaTime \in DeltaTimes : Update(i, deltaTime)
    \/ \E i \in Driven, value \in SetterValues : SetX(i, value)
    \/ \E i \in Driven, value \in SetterValues : SetY(i, value)
    \/ \E i \in Driven, value \in SetterValues : SetGravityY(i, value)
    \/ \E i \in Driven, force \in Forces : ApplyForce(i, force)
    \/ \E i \in Driven, impulse \in Impulses : ApplyImpulse(i, impulse)
    \/ \E i \in Driven, j \in BodyIds \ Driven : CollideWithBody(i, j)

SpecProps == InitProps /\ [][NextProps]_vars

\* The last operation is one that writes to a vector of one body: update,
\* a setter, or a write into the gravity.
WritesVectors == last.op \in {"update", "setX", "setY", "setGravityY"}

\* C14: every body owns its position, velocity, acceleration and gravity
\* vectors: when two bodies are built from props holding the same vector
\* object, update, the x and y setters and a write into the gravity of one
\* body never change the position, velocity or gravity of the other.
C14_OwnVectors ==
    WritesVectors =>
        \A j \in BodyIds \ {last.body} :
            /\ bodies[j].position = pre[j].position
            /\ bodies[j].velocity = pre[j].velocity
            /\ bodies[j].gravity = pre[j].gravity

\* C17: a body with mass <= 0 is rejected when it is constructed: no body
\* exists with such a mass, and so no position or velocity becomes NaN or
\* infinite through applyForce, applyImpulse or collide.
C17_MassRejected ==
    \A i \in BodyIds :
        /\ RGt(bodies[i].mass, R(0))
        /\ FiniteVector(bodies[i].position)
        /\ FiniteVector(bodies[i].velocity)

----------------------------------------------------------------------------
(* collideWithSurface in floating point.  A JavaScript number is a binary  *)
(* floating-point number: every +, -, * and / yields the representable     *)
(* number nearest to the exact result, ties going to the even significand. *)
(* The definitions below follow the code operation by operation and round  *)
(* after each; the significand has MantissaBits bits where the double has  *)
(* 53.  Exponents are not limited: no value here is near the ends of the   *)
(* double's range.                                                         *)

\* The number of bits of the significand.
MantissaBits == 4

\* The binary exponents the values of SpecSurface lie between.
MaxExponent == 8

\* |a|
RAbs(a) == <<Abs(a[1]), a[2]>>

\* 2^e, e any integer
Pow2(e) == IF e >= 0 THEN R(2 ^ e) ELSE Norm(1, 2 ^ (-e))

\* The binary exponent of a finite number other than 0.
Exponent(a) ==
    CHOOSE e \in (-MaxExponent)..MaxExponent :
        RLe(Pow2(e), RAbs(a)) /\ RLt(RAbs(a), Pow2(e + 1))

\* The integer nearest to a number >= 0, a tie going to the even one.
RoundHalfEven(a) ==
    LET f == a[1] \div a[2]
        twice == 2 * (a[1] - f * a[2])
    IN  IF twice < a[2] THEN f
        ELSE IF twice > a[2] THEN f + 1
        ELSE IF f % 2 = 0 THEN f ELSE f + 1

\* The representable number nearest to a.
Round(a) ==
    IF a[2] = 0 \/ a[1] = 0 THEN a
    ELSE LET ulp == Pow2(Exponent(a) - MantissaBits + 1)
         IN  RMul(R(Sgn(a[1]) * RoundHalfEven(RDiv(RAbs(a), ulp))), ulp)

\* A decimal literal n/d of the host's source text.
Literal(n, d) == Round(Norm(n, d))

FAdd(a, b) == Round(RAdd(a, b))

FSub(a, b) == Round(RSub(a, b))

FMul(a, b) == Round(RMul(a, b))

FDiv(a, b) == Round(RDiv(a, b))

addF(v1, v2) == Vec(FAdd(v1.x, v2.x), FAdd(v1.y, v2.y))

subtractF(v1, v2) == Vec(FSub(v1.x, v2.x), FSub(v1.y, v2.y))

scaleF(v, scalar) == Vec(FMul(v.x, scalar), FMul(v.y, scalar))

dotF(v1, v2) == FAdd(FMul(v1.x, v2.x), FMul(v1.y, v2.y))

lengthF(v) == Round(Sqrt(FAdd(FMul(v.x, v.x), FMul(v.y, v.y))))

normalizeF(v) ==
    LET len == lengthF(v)
    IN  IF REq(len, R(0)) THEN zero ELSE scaleF(v, FDiv(R(1), len))

reflectF(vector, normal) ==
    LET dotProduct == FMul(R(2), dotF(vector, normal))
    IN  Vec(FSub(vector.x, FMul(dotProduct, normal.x)),
            FSub(vector.y, FMul(dotProduct, normal.y)))

\* collideWithSurface(point, normal)
Body_collideWithSurfaceF(st, i, point, normal) ==
    LET n == normalizeF(normal)
        d == dotF(subtractF(st.bs[i].position, point), n)
    IN  IF RGe(d, st.bs[i].radius) THEN st
        ELSE LET s1 == Assign(st, i, "position",
                              addF(st.bs[i].position,
                                   scaleF(n, FSub(st.bs[i].radius, d))))
             IN  Assign(s1, i, "velocity",
                        scaleF(reflectF(s1.bs[i].velocity, n),
                               s1.bs[i].elasticity))

\* The number of collideWithSurface calls the host makes.
MaxSurfaceCalls == 2

\* The coordinates, radii and velocities the host writes, as the decimal
\* literals of its source text.
SurfaceCoords == {Literal(34, 10), Literal(-7, 10), Literal(1, 10), R(0)}

SurfaceRadii == {Literal(14, 10), Literal(7, 10), R(1)}

SurfaceVelocities == {V(3, 0), Vec(R(-1), Literal(25, 10))}

\* The planes, as <<point, normal>>: a floor, a wall, and a floor given with
\* a normal that is not normalised.
SurfacePlanes ==
    {<<Vec(Literal(26, 10), R(-5)), V(0, -1)>>,
     <<Vec(Literal(3, 10), Literal(3, 10)), V(1, 0)>>,
     <<Vec(Literal(26, 10), Literal(3, 10)), V(0, -2)>>}

InitSurface ==
    /\ \E x \in SurfaceCoords, y \in SurfaceCoords, r \in SurfaceRadii,
          v \in SurfaceVelocities :
          bodies = [i \in BodyIds |->
                       IF i = "a"
                       THEN NewBody([position |-> Vec(x, y), radius |-> r,
                                     velocity |-> v,
                                     elasticity |-> Literal(8, 10)])
                       ELSE NewBody([radius |-> R(1)])]
    /\ shared = {}
    /\ hist = <<[call |-> NoCall, bodies |-> bodies]>>
    /\ calls = <<>>
    /\ particles = <<>>

SurfaceCollide(i, point, normal) ==
    /\ steps < MaxSurfaceCalls
    /\ Becomes(Body_collideWithSurfaceF(Now, i, point, normal))
    /\ Record([op |-> "collideWithSurface", body |-> i, point |-> point,
               normal |-> normal])
    /\ UNCHANGED <<calls, particles>>

NextSurface ==
    \E i \in Driven, s \in SurfacePlanes : SurfaceCollide(i, s[1], s[2])

SpecSurface == InitSurface /\ [][NextSurface]_vars

\* The distance of the centre of body b from the plane, as the code
\* computes it.
SurfaceDistanceF(b, point, normal) ==
    dotF(subtractF(b.position, point), normalizeF(normal))

\* The last call found the body penetrating a plane with a non-zero normal.
Penetrating ==
    /\ last.op = "collideWithSurface"
    /\ last.normal # zero
    /\ RLt(SurfaceDistanceF(pre[last.body], last.point, last.normal),
           pre[last.body].radius)

\* C20: a collideWithSurface call that finds the body penetrating the plane
\* (d < radius, normal non-zero) leaves it at d = radius exactly, with the
\* velocity reflect(velocity, n) * elasticity; an immediately repeated call
\* with the same arguments changes nothing, and after any call the body does
\* not penetrate the plane (d >= radius).
C20_RestsOnPlane ==
    Penetrating =>
        /\ SurfaceDistanceF(bodies[last.body], last.point, last.normal)
               = bodies[last.body].radius
        /\ bodies[last.body].velocity =
               scaleF(reflectF(pre[last.body].velocity,
                               normalizeF(last.normal)),
                      pre[last.body].elasticity)
        /\ Body_collideWithSurfaceF(Now, last.body, last.point,
                                    last.normal).bs = bodies
        /\ RGe(SurfaceDistanceF(bodies[last.body], last.point, last.normal),
               bodies[last.body].radius)

----------------------------------------------------------------------------
(* A body falling onto a floor: the host loop calls update(0.1) and then   *)
(* collideWithSurface with the floor, tick after tick.                     *)

\* The number of ticks of the loop.
MaxFallTicks == 12

FallElasticities == {R(0), Norm(1, 4), Norm(1, 2), Norm(8, 10), R(1)}

FallDeltaTime == Norm(1, 10)

\* The floor at y = 500, its normal pointing up the screen.
FloorPoint == V(0, 500)

FloorNormal == V(0, -1)

InitFall ==
    /\ \E e \in FallElasticities :
          bodies = [i \in BodyIds |->
                       IF i = "a"
                       THEN NewBody([gravity |-> DOWNWARD_GRAVITY,
                                     elasticity |-> e])
                       ELSE NewBody([position |-> V(1, 0)])]
    /\ hist = <<[call |-> NoCall, bodies |-> bodies]>>
    /\ shared = {}
    /\ particles = <<>>
    /\ calls = <<>>

\* ball.update(0.1)
FallUpdate ==
    /\ steps < 2 * MaxFallTicks
    /\ last.op # "update"
    /\ Becomes(Body_update(Now, "a", FallDeltaTime))
    /\ Record([op |-> "update", body |-> "a", deltaTime |-> FallDeltaTime])
    /\ UNCHANGED <<calls, particles>>

\* ball.collideWithSurface(floor)
FallSurface ==
    /\ last.op = "update"
    /\ Becomes(Body_collideWithSurface(Now, "a", FloorPoint, FloorNormal))
    /\ Record([op |-> "collideWithSurface", body |-> "a",
               point |-> FloorPoint, normal |-> FloorNormal])
    /\ UNCHANGED <<calls, particles>>

NextFall == FallUpdate \/ FallSurface

SpecFall == InitFall /\ [][NextFall]_vars

\* The falling body after entry k of the history.
Ball(k) == hist[k].bodies["a"]

\* Entry k is an update and the body has not been below the floor before it.
Falling(k) ==
    /\ hist[k].call.op = "update"
    /\ \A j \in 1..(k - 1) : RLe(Ball(j).position.y, FloorPoint.y)

\* C8: the y-velocity grows strictly on every update up to and including the
\* first one that takes the body past y = 500; the collideWithSurface that
\* follows puts the body at y = 500 with y-velocity -elasticity times the
\* y-velocity it had, and no earlier collideWithSurface changes the body.
C8_FallAndBounce ==
    \A k \in 2..Len(hist) :
        /\ Falling(k) => RGt(Ball(k).velocity.y, Ball(k - 1).velocity.y)
        /\ (/\ hist[k].call.op = "collideWithSurface"
            /\ Falling(k - 1)) =>
               IF RGt(Ball(k - 1).position.y, FloorPoint.y)
               THEN /\ Ball(k).position.y = FloorPoint.y
                    /\ Ball(k).velocity.y
                           = RMul(RNeg(Ball(k).elasticity),
                                  Ball(k - 1).velocity.y)
                    /\ RGt(Ball(k - 1).velocity.y, R(0))
                    /\ RLe(Ball(k).velocity.y, R(0))
               ELSE Ball(k) = Ball(k - 1)

\* With elasticity 0.8 the tenth update takes the body to y = 539 at 980 a
\* second, and the bounce leaves it at y = 500 moving up at 784.
C8_Witness ==
    /\ Len(hist) >= 21
    /\ Ball(1).elasticity = Norm(8, 10)
    /\ Falling(20)
    /\ Ball(20).position = V(0, 539)
    /\ Ball(20).velocity = V(0, 980)
    /\ hist[21].call.op = "collideWithSurface"
    /\ Ball(21).position = V(0, 500)
    /\ Ball(21).velocity = V(0, -784)

----------------------------------------------------------------------------
(* src/src/physics.ts: the many-body force fields.  A particle is a record *)
(* [position, velocity, density, pressure, mass]; boids reads only the     *)
(* position and the velocity of such a record.  Two entries of an array    *)
(* are two objects, also when their fields are equal.                      *)

\* Math.floor
Floor(a) == IF a[2] = 0 THEN a ELSE R(a[1] \div a[2])

\* Math.max(a, b)
Max(a, b) == IF IsNaN(a) \/ IsNaN(b) THEN NaN ELSE IF RLt(a, b) THEN b ELSE a

\* getGridKey with cells of half the smoothing radius.
getGridKeyHalfCell(x, y, gridSize) ==
    <<Floor(RDiv(x, RDiv(gridSize, R(2)))),
      Floor(RDiv(y, RDiv(gridSize, R(2))))>>

\* getGridKey(x, y): the key is the text "gx,gy" of the two cell numbers,
\* which split(',').map(Number) reads back; two keys are the same text
\* exactly when the two pairs of cell numbers are the same.
getGridKey(x, y, gridSize) ==
    <<Floor(RDiv(x, gridSize)), Floor(RDiv(y, gridSize))>>

\* grid[key]: the particles pushed under the key, in the order of the array.
gridCell(ps, key, gridSize) ==
    SelectSeq([k \in 1..Len(ps) |-> k],
              LAMBDA k : getGridKey(ps[k].position.x, ps[k].position.y,
                                    gridSize) = key)

\* The offsets <<dx, dy>> in the order of the loops over dx and dy.
CellOffsets ==
    << <<-1, -1>>, <<-1, 0>>, <<-1, 1>>,
       << 0, -1>>, << 0, 0>>, << 0, 1>>,
       << 1, -1>>, << 1, 0>>, << 1, 1>> >>

\* The particles the loops over dx and dy visit for particle i, from the
\* c-th cell on.
RECURSIVE neighborsFrom(_, _, _, _)
neighborsFrom(ps, i, gridSize, c) ==
    IF c > Len(CellOffsets) THEN <<>>
    ELSE LET key == getGridKey(ps[i].position.x, ps[i].position.y, gridSize)
             neighborKey == <<RAdd(key[1], R(CellOffsets[c][1])),
                              RAdd(key[2], R(CellOffsets[c][2]))>>
         IN  gridCell(ps, neighborKey, gridSize)
                 \o neighborsFrom(ps, i, gridSize, c + 1)

\* p.density of particle i after the visit of the first k of the
\* neighbours ns.
RECURSIVE densityOver(_, _, _, _, _)
densityOver(ps, i, ns, k, smoothingRadius) ==
    IF k = 0 THEN R(0)
    ELSE LET neighbor == ps[ns[k]]
             dist == Sqrt(distanceSquared(ps[i].position, neighbor.position))
             before == densityOver(ps, i, ns, k - 1, smoothingRadius)
         IN  IF RLt(dist, smoothingRadius)
             THEN RAdd(before,
                       RMul(neighbor.mass,
                            RSub(R(1), RDiv(dist, smoothingRadius))))
             ELSE before

\* The particles the loops visit for particle i.
neighborsOf(ps, i, gridSize) == neighborsFrom(ps, i, gridSize, 1)

\* The particles after the density pass.
fluidDensities(ps, config) ==
    [i \in 1..Len(ps) |->
        LET ns == neighborsOf(ps, i, config.smoothingRadius)
            density == densityOver(ps, i, ns, Len(ns), config.smoothingRadius)
        IN  [ps[i] EXCEPT
                !.density = density,
                !.pressure = RMul(config.stiffness,
                                  RSub(density, config.restDensity))]]

fluidPairForceOwnPressure(p, neighbor, dist, config) ==
    LET dir == normalize(subtract(neighbor.position, p.position))
        falloff == RSub(R(1), RDiv(dist, config.smoothingRadius))
        pressureForce ==
            scale(dir, RDiv(RMul(RNeg(p.pressure), falloff),
                            RMul(p.density, neighbor.density)))
        relativeVel == subtract(neighbor.velocity, p.velocity)
        viscosityForce ==
            scale(relativeVel,
                  RDiv(RMul(config.viscosity, falloff),
                       RMul(p.density, neighbor.density)))
    IN  scale(add(pressureForce, viscosityForce), RMul(p.mass, neighbor.mass))

\* What the force loop adds to forces[i] for a neighbour at dist, below the
\* smoothing radius, from p.
fluidPairForce(p, neighbor, dist, config) ==
    LET dir == normalize(subtract(neighbor.position, p.position))
        falloff == RSub(R(1), RDiv(dist, config.smoothingRadius))
        pressureForce ==
            scale(dir, RDiv(RMul(RNeg(RAdd(p.pressure, neighbor.pressure)),
                                 falloff),
                            RMul(RMul(R(2), p.density), neighbor.density)))
        relativeVel == subtract(neighbor.velocity, p.velocity)
        viscosityForce ==
            scale(relativeVel,
                  RDiv(RMul(config.viscosity, falloff),
                       RMul(p.density, neighbor.density)))
    IN  scale(add(pressureForce, viscosityForce), RMul(p.mass, neighbor.mass))

\* forces[i] after the visit of the first k of the neighbours ns.
RECURSIVE forceOver(_, _, _, _, _)
forceOver(ps, i, ns, k, config) ==
    IF k = 0 THEN zero
    ELSE LET j == ns[k]
             dist == distance(ps[i].position, ps[j].position)
             before == forceOver(ps, i, ns, k - 1, config)
         IN  IF j = i THEN before
             ELSE IF RLt(dist, config.smoothingRadius)
             THEN add(before, fluidPairForce(ps[i], ps[j], dist, config))
             ELSE before

\* The array the force loop fills, ps being the particles after the density
\* pass.
fluidForces(ps, config) ==
    [i \in 1..Len(ps) |->
        LET ns == neighborsOf(ps, i, config.smoothingRadius)
        IN  forceOver(ps, i, ns, Len(ns), config)]

fluidApplyingForces(ps, config) ==
    LET forces == fluidForces(fluidDensities(ps, config), config)
    IN  [particles |->
             [i \in 1..Len(ps) |->
                 [fluidDensities(ps, config)[i] EXCEPT
                     !.velocity = add(ps[i].velocity, forces[i])]],
         forces |-> forces]

\* fluid with the force pass reading the densities and pressures the
\* particles came with.
fluidStaleDensities(ps, config) ==
    [particles |-> fluidDensities(ps, config),
     forces |-> fluidForces(ps, config)]

\* physics.fluid(particles, config): the particles after the call, and the
\* array it returns.
fluid(ps, config) ==
    [particles |-> fluidDensities(ps, config),
     forces |-> fluidForces(fluidDensities(ps, config), config)]

\* The indices of the array, in order: what particles.forEach visits.
everyParticle(ps) == [k \in 1..Len(ps) |-> k]

\* physics.resolveFluid(particles, smoothingRadius, stiffness, restDensity,
\* viscosity), the scan over all pairs: the particles after the call, and
\* the array it returns.
resolveFluid(ps, smoothingRadius, stiffness, restDensity, viscosity) ==
    LET config == [smoothingRadius |-> smoothingRadius,
                   stiffness |-> stiffness, restDensity |-> restDensity,
                   viscosity |-> viscosity]
        ns == everyParticle(ps)
        after ==
            [i \in 1..Len(ps) |->
                LET density == densityOver(ps, i, ns, Len(ns), smoothingRadius)
                IN  [ps[i] EXCEPT
                        !.density = density,
                        !.pressure = RMul(stiffness,
                                          RSub(density, restDensity))]]
    IN  [particles |-> after,
         forces |-> [i \in 1..Len(ps) |->
                        forceOver(after, i, ns, Len(ns), config)]]

\* `separation` of boid i after forEach has visited the boids 1..j.
RECURSIVE separationOver(_, _, _, _)
separationOver(bs, i, j, rules) ==
    IF j = 0 THEN zero
    ELSE LET before == separationOver(bs, i, j - 1, rules)
             dist == Sqrt(distanceSquared(bs[i].position, bs[j].position))
             away == normalize(subtract(bs[i].position, bs[j].position))
         IN  IF i = j THEN before
             ELSE IF RLt(dist, rules.separationRadius)
             THEN add(before,
                      scale(away, RDiv(R(1), Max(dist, Norm(1, 10)))))
             ELSE before

\* `alignment` of boid i after forEach has visited the boids 1..j.
RECURSIVE alignmentOver(_, _, _, _)
alignmentOver(bs, i, j, rules) ==
    IF j = 0 THEN zero
    ELSE LET before == alignmentOver(bs, i, j - 1, rules)
             dist == Sqrt(distanceSquared(bs[i].position, bs[j].position))
         IN  IF i = j THEN before
             ELSE IF RLt(dist, rules.alignmentRadius)
             THEN add(before, bs[j].velocity)
             ELSE before

\* `cohesion` of boid i after forEach has visited the boids 1..j.
RECURSIVE cohesionOver(_, _, _, _)
cohesionOver(bs, i, j, rules) ==
    IF j = 0 THEN zero
    ELSE LET before == cohesionOver(bs, i, j - 1, rules)
             dist == Sqrt(distanceSquared(bs[i].position, bs[j].position))
         IN  IF i = j THEN before
             ELSE IF RLt(dist, rules.alignmentRadius)
             THEN add(before, bs[j].position)
             ELSE before

\* `neighborCount` of boid i after forEach has visited the boids 1..j.
RECURSIVE neighborCountOver(_, _, _, _)
neighborCountOver(bs, i, j, rules) ==
    IF j = 0 THEN 0
    ELSE LET before == neighborCountOver(bs, i, j - 1, rules)
             dist == Sqrt(distanceSquared(bs[i].position, bs[j].position))
         IN  IF i = j THEN before
             ELSE IF RLt(dist, rules.alignmentRadius) THEN before + 1
             ELSE before

\* if (v.x !== 0 || v.y !== 0) v = normalize(v)
normalizeNonZero(v) ==
    IF ~REq(v.x, R(0)) \/ ~REq(v.y, R(0)) THEN normalize(v) ELSE v

\* The averaged alignment and the offset of the neighbours' centre, before
\* they are normalized; both for a boid with neighborCount > 0.
boidAlignment(bs, i, rules) ==
    scale(alignmentOver(bs, i, Len(bs), rules),
          RDiv(R(1), R(neighborCountOver(bs, i, Len(bs), rules))))

boidCohesion(bs, i, rules) ==
    subtract(scale(cohesionOver(bs, i, Len(bs), rules),
                   RDiv(R(1), R(neighborCountOver(bs, i, Len(bs), rules)))),
             bs[i].position)

\* `force` of boid i before the clamp.
boidCombined(bs, i, rules) ==
    IF neighborCountOver(bs, i, Len(bs), rules) > 0
    THEN add(add(scale(normalizeNonZero(separationOver(bs, i, Len(bs), rules)),
                       rules.separationWeight),
                 scale(normalizeNonZero(boidAlignment(bs, i, rules)),
                       rules.alignmentWeight)),
             scale(normalizeNonZero(boidCohesion(bs, i, rules)),
                   rules.cohesionWeight))
    ELSE zero

\* A clamp that brings every force to maxSpeed.
boidClampAlways(force, maxSpeed) ==
    IF RGt(maxSpeed, R(0))
    THEN LET speed == Sqrt(RAdd(RMul(force.x, force.x),
                                RMul(force.y, force.y)))
         IN  scale(force, RDiv(maxSpeed, speed))
    ELSE force

\* The clamp to maxSpeed.
boidClamp(force, maxSpeed) ==
    IF RGt(maxSpeed, R(0))
    THEN LET speed == Sqrt(RAdd(RMul(force.x, force.x),
                                RMul(force.y, force.y)))
         IN  IF RGt(speed, maxSpeed)
             THEN scale(force, RDiv(maxSpeed, speed))
             ELSE force
    ELSE force

\* physics.boids(boids, rules): the array it returns.
boids(bs, rules) ==
    [i \in 1..Len(bs) |-> boidClamp(boidCombined(bs, i, rules), rules.maxSpeed)]

\* The calls of boids in which every square root the code takes is rational.
boidsRational(bs, rules) ==
    \A i \in 1..Len(bs) :
        neighborCountOver(bs, i, Len(bs), rules) > 0 =>
            /\ HasLength(separationOver(bs, i, Len(bs), rules))
            /\ HasLength(boidAlignment(bs, i, rules))
            /\ HasLength(boidCohesion(bs, i, rules))
            /\ RGt(rules.maxSpeed, R(0)) =>
                   HasLength(boidCombined(bs, i, rules))

----------------------------------------------------------------------------
(* The host of the force fields: it builds an array of particles, with     *)
(* density and pressure 0, and calls fluid or boids on it, once.  The      *)
(* positions are the centre and the corners of a rhombus, so that every    *)
(* distance between two of them is rational.                               *)

MaxParticles == 3

Particle(position, velocity, mass) ==
    [position |-> position, velocity |-> velocity,
     density |-> R(0), pressure |-> R(0), mass |-> mass]

ParticleInputs ==
    {Particle(V(0, 0), V(1, 0), R(1)),
     Particle(V(3, 0), V(-1, 0), R(2)),
     Particle(V(-3, 0), V(2, 0), R(1)),
     Particle(V(0, 4), V(0, 0), R(3)),
     Particle(V(0, -4), V(3, 4), Norm(1, 2))}

FluidConfig(smoothingRadius, stiffness, restDensity, viscosity) ==
    [smoothingRadius |-> smoothingRadius, stiffness |-> stiffness,
     restDensity |-> restDensity, viscosity |-> viscosity]

FluidConfigs ==
    {FluidConfig(R(5), R(50), R(1), Norm(1, 10)),
     FluidConfig(R(4), R(50), R(3), R(0)),
     FluidConfig(Norm(7, 2), R(0), R(1), Norm(1, 10)),
     FluidConfig(R(10), R(2), R(1), R(1))}

BoidRules(separationRadius, alignmentRadius, cohesionRadius, separationWeight, alignmentWeight, cohesionWeight, maxSpeed) ==
    [separationRadius |-> separationRadius,
     alignmentRadius |-> alignmentRadius,
     cohesionRadius |-> cohesionRadius,
     separationWeight |-> separationWeight,
     alignmentWeight |-> alignmentWeight,
     cohesionWeight |-> cohesionWeight,
     maxSpeed |-> maxSpeed]

BoidRuleSets ==
    {BoidRules(R(5), R(10), R(10), R(2), R(0), R(0), R(1)),
     BoidRules(R(4), R(4), R(10), R(0), R(1), R(1), R(10)),
     BoidRules(R(5), R(3), R(3), R(1), R(1), R(1), R(0)),
     BoidRules(R(3), R(3), R(3), R(1), R(2), Norm(1, 2), R(10)),
     BoidRules(R(1), R(4), R(10), R(0), R(0), R(1), R(10))}

InitFields ==
    /\ \E n \in 0..MaxParticles :
          \E ps \in [1..n -> ParticleInputs] :
              /\ \A i, j \in 1..n : HasDistance(ps[i].position, ps[j].position)
              /\ particles = ps
    /\ calls = <<>>
    /\ bodies = [i \in BodyIds |-> DefaultBody]
    /\ hist = <<[call |-> NoCall, bodies |-> bodies]>>
    /\ shared = {}

\* forces = physics.fluid(particles, config)
Fluid(config) ==
    /\ calls = <<>>
    /\ \E out \in {fluid(particles, config)} :
          /\ particles' = out.particles
          /\ calls' = Append(calls, [fn |-> "fluid", particles |-> particles,
                                     config |-> config, ret |-> out.forces])
    /\ UNCHANGED <<bodies, hist, shared>>

\* forces = physics.boids(particles, rules)
Boids(rules) ==
    /\ calls = <<>>
    /\ boidsRational(particles, rules)
    /\ calls' = Append(calls, [fn |-> "boids", particles |-> particles,
                               rules |-> rules,
                               ret |-> boids(particles, rules)])
    /\ UNCHANGED <<bodies, hist, shared, particles>>

NextFields ==
    \/ \E config \in FluidConfigs : Fluid(config)
    \/ \E rules \in BoidRuleSets : Boids(rules)

SpecFields == InitFields /\ [][NextFields]_vars

negate(v) == Vec(RNeg(v.x), RNeg(v.y))

\* Call k is a call of fluid on two particles with positive masses that are
\* within the smoothing radius of each other.
FluidPair(k) ==
    /\ calls[k].fn = "fluid"
    /\ Len(calls[k].particles) = 2
    /\ \A i \in 1..2 : RGt(calls[k].particles[i].mass, R(0))
    /\ RLt(distance(calls[k].particles[1].position,
                    calls[k].particles[2].position),
           calls[k].config.smoothingRadius)

\* C9: for two fluid particles within the smoothing radius of each other the
\* force fluid returns for the first is the negation of the force it returns
\* for the second, whatever the masses, velocities, stiffness, restDensity
\* and viscosity (with stiffness 0 the force is the viscosity term alone,
\* with viscosity 0 the pressure term alone).
C9_EqualAndOpposite ==
    \A k \in 1..Len(calls) :
        FluidPair(k) => calls[k].ret[1] = negate(calls[k].ret[2])

\* Masses 1 and 2 at distance 3, radius 5, stiffness 50, restDensity 1,
\* viscosity 0.1: densities 9/5 and 12/5, pressures 40 and 70, pressure term
\* -275/54 and viscosity term -1/54 along x, times the masses' product 2.
C9_Witness ==
    /\ Len(calls) >= 1
    /\ FluidPair(1)
    /\ calls[1].config = FluidConfig(R(5), R(50), R(1), Norm(1, 10))
    /\ calls[1].particles[1] = Particle(V(0, 0), V(1, 0), R(1))
    /\ calls[1].particles[2] = Particle(V(3, 0), V(-1, 0), R(2))
    /\ calls[1].ret[1] = Vec(Norm(-92, 9), R(0))
    /\ calls[1].ret[2] = Vec(Norm(92, 9), R(0))

\* The result of call k, the one call made, is an array of vectors with one
\* entry for every entry of the input array, and the input array keeps its
\* entries.
Parallel(k) ==
    /\ DOMAIN calls[k].ret = DOMAIN calls[k].particles
    /\ DOMAIN particles = DOMAIN calls[k].particles
    /\ \A i \in DOMAIN calls[k].ret : DOMAIN calls[k].ret[i] = {"x", "y"}

FieldCall(k) == calls[k].fn \in {"fluid", "boids"}

\* C10 as stated: after a call of fluid or of boids every field of every
\* input record (position, velocity, mass, density, pressure) has the value
\* it had before the call, and the result is an array parallel to the input.
C10_Pure ==
    \A k \in 1..Len(calls) :
        FieldCall(k) => particles = calls[k].particles /\ Parallel(k)

\* C10, amended: the result of fluid and of boids is an array parallel to
\* the input; boids leaves every field of every record as it was; fluid
\* leaves position, velocity and mass of every particle as they were and
\* overwrites its density, which then counts at least the particle's own
\* mass, and its pressure, stiffness * (density - restDensity).
C10_PureButDensity ==
    \A k \in 1..Len(calls) :
        FieldCall(k) =>
            /\ Parallel(k)
            /\ calls[k].fn = "boids" => particles = calls[k].particles
            /\ calls[k].fn = "fluid" =>
                   \A i \in DOMAIN calls[k].particles :
                       /\ particles[i].position = calls[k].particles[i].position
                       /\ particles[i].velocity = calls[k].particles[i].velocity
                       /\ particles[i].mass = calls[k].particles[i].mass
                       /\ RGe(particles[i].density, particles[i].mass)
                       /\ particles[i].pressure
                              = RMul(calls[k].config.stiffness,
                                     RSub(particles[i].density,
                                          calls[k].config.restDensity))

\* A call of fluid on two particles in reach of each other returned a force
\* that is not zero for each and left the first particle, built with density
\* 0 and pressure 0, with density 9/5 and pressure 40 and all else as it was.
C10_Witness ==
    /\ Len(calls) >= 1
    /\ calls[1].fn = "fluid"
    /\ calls[1].particles
           = <<Particle(V(0, 0), V(1, 0), R(1)),
               Particle(V(3, 0), V(-1, 0), R(2))>>
    /\ calls[1].config = FluidConfig(R(5), R(50), R(1), Norm(1, 10))
    /\ calls[1].ret[1] # zero
    /\ particles[1] = [calls[1].particles[1] EXCEPT !.density = Norm(9, 5),
                                                    !.pressure = R(40)]

\* The particles of call k that the 3x3 block of cells around particle i
\* holds, and those within the smoothing radius of particle i.
InBlock(k, i) ==
    {neighborsOf(calls[k].particles, i, calls[k].config.smoothingRadius)[n] :
        n \in 1..Len(neighborsOf(calls[k].particles, i,
                                 calls[k].config.smoothingRadius))}

InRange(k, i) ==
    {j \in DOMAIN calls[k].particles :
        RLt(distance(calls[k].particles[i].position,
                     calls[k].particles[j].position),
            calls[k].config.smoothingRadius)}

\* The cell of particle i of call k.
CellOf(k, i) ==
    getGridKey(calls[k].particles[i].position.x,
               calls[k].particles[i].position.y,
               calls[k].config.smoothingRadius)

\* C26: the grid lookup of fluid is equivalent to the scan over all pairs:
\* the 3x3 block of cells around a particle holds every particle at a
\* distance below the smoothing radius, and fluid computes the densities,
\* pressures and forces that resolveFluid computes with the same parameters.
C26_GridIsBruteForce ==
    \A k \in 1..Len(calls) :
        calls[k].fn = "fluid" =>
            /\ \A i \in DOMAIN calls[k].particles : InRange(k, i) \subseteq InBlock(k, i)
            /\ \E bf \in {resolveFluid(calls[k].particles,
                                       calls[k].config.smoothingRadius,
                                       calls[k].config.stiffness,
                                       calls[k].config.restDensity,
                                       calls[k].config.viscosity)} :
                  /\ calls[k].ret = bf.forces
                  /\ particles = bf.particles

\* A fluid call on three particles in which the block of one particle
\* leaves another particle out, and a particle at a negative coordinate
\* is in range of a particle in another cell, on a cell boundary.
C26_Witness ==
    /\ Len(calls) >= 1
    /\ calls[1].fn = "fluid"
    /\ Len(calls[1].particles) = 3
    /\ \E i \in 1..3 : InBlock(1, i) # {1, 2, 3}
    /\ \E i, j \in 1..3 :
          /\ j \in InRange(1, i)
          /\ CellOf(1, i) # CellOf(1, j)
          /\ calls[1].particles[i].position = V(0, 0)
          /\ RLt(calls[1].particles[j].position.x, R(0))
    /\ calls[1].ret[1] # zero

\* Particle i of call k has no other particle within the smoothing radius.
Isolated(k, i) == InRange(k, i) \subseteq {i}

\* The array ps without its entry i, and the place of entry j in it.
Without(ps, i) == SubSeq(ps, 1, i - 1) \o SubSeq(ps, i + 1, Len(ps))

PlaceWithout(i, j) == IF j < i THEN j ELSE j - 1

\* Every mass of the array is > 0.
MassesPositive(ps) == \A i \in DOMAIN ps : RGt(ps[i].mass, R(0))

\* C27: a fluid particle with no other particle within the smoothing radius
\* receives the zero force and adds nothing to the force or the density of
\* any other particle (they are what fluid computes without it); and when
\* all masses are > 0 every density written is > 0 and every force
\* component returned is a finite number.
C27_IsolatedParticle ==
    \A k \in 1..Len(calls) :
        calls[k].fn = "fluid" =>
            /\ \A i \in DOMAIN calls[k].particles :
                  Isolated(k, i) =>
                      /\ calls[k].ret[i] = zero
                      /\ \E rest \in {fluid(Without(calls[k].particles, i),
                                            calls[k].config)} :
                            \A j \in DOMAIN calls[k].particles \ {i} :
                                /\ calls[k].ret[j]
                                       = rest.forces[PlaceWithout(i, j)]
                                /\ particles[j].density
                                       = rest.particles[PlaceWithout(i, j)].density
            /\ MassesPositive(calls[k].particles) =>
                  \A i \in DOMAIN calls[k].particles :
                      /\ FiniteVector(calls[k].ret[i])
                      /\ RGt(particles[i].density, R(0))

\* A fluid call on three particles with positive masses: one has nobody in
\* range, although the others are in its block of cells, and gets the zero
\* force; the other two push each other.
C27_Witness ==
    /\ Len(calls) >= 1
    /\ calls[1].fn = "fluid"
    /\ Len(calls[1].particles) = 3
    /\ MassesPositive(calls[1].particles)
    /\ Isolated(1, 3)
    /\ InBlock(1, 3) = {1, 2, 3}
    /\ calls[1].ret[3] = zero
    /\ calls[1].ret[1] # zero
    /\ calls[1].ret[2] # zero

\* The distance between boids i and j of call k.
BoidDistance(k, i, j) ==
    distance(calls[k].particles[i].position, calls[k].particles[j].position)

\* Boid i of call k has no other boid within any of the three radii.
Alone(k, i) ==
    \A j \in DOMAIN calls[k].particles \ {i} :
        /\ RGe(BoidDistance(k, i, j), calls[k].rules.separationRadius)
        /\ RGe(BoidDistance(k, i, j), calls[k].rules.alignmentRadius)
        /\ RGe(BoidDistance(k, i, j), calls[k].rules.cohesionRadius)

\* C11: boids returns the zero vector for every boid that has no other boid
\* within separationRadius, alignmentRadius or cohesionRadius, whatever
\* the weights and maxSpeed.
C11_AloneIsZero ==
    \A k \in 1..Len(calls) :
        calls[k].fn = "boids" =>
            \A i \in DOMAIN calls[k].particles :
                Alone(k, i) => calls[k].ret[i] = zero

\* Three boids, the third at distance 5 from the others and out of every
\* radius, all weights and maxSpeed positive: the third gets (0,0), the
\* first does not.
C11_Witness ==
    /\ Len(calls) = 1
    /\ calls[1].fn = "boids"
    /\ calls[1].rules = BoidRules(R(3), R(3), R(3), R(1), R(2), Norm(1, 2), R(10))
    /\ Len(calls[1].particles) = 3
    /\ calls[1].particles[1].position = V(0, 0)
    /\ calls[1].particles[2].position = V(0, 0)
    /\ calls[1].particles[3].position = V(3, 0)
    /\ Alone(1, 3)
    /\ ~Alone(1, 1)
    /\ calls[1].ret[3] = zero
    /\ calls[1].ret[1] # zero

\* The other boids of call k at a distance below radius from boid i.
Within(k, i, radius) ==
    {j \in DOMAIN calls[k].particles \ {i} :
        RLt(BoidDistance(k, i, j), radius)}

RECURSIVE SumPositions(_, _)
SumPositions(ps, S) ==
    IF S = {} THEN zero
    ELSE LET j == CHOOSE j \in S : TRUE
         IN  add(ps[j].position, SumPositions(ps, S \ {j}))

\* The average position of the boids within radius of boid i, minus the
\* position of boid i.
Centre(k, i, radius) ==
    subtract(scale(SumPositions(calls[k].particles, Within(k, i, radius)),
                   RDiv(R(1), R(Cardinality(Within(k, i, radius))))),
             calls[k].particles[i].position)

\* Call k is a call of boids in which only cohesion has a weight, and the
\* weight is within maxSpeed.
CohesionOnly(k) ==
    /\ calls[k].fn = "boids"
    /\ calls[k].rules.separationWeight = R(0)
    /\ calls[k].rules.alignmentWeight = R(0)
    /\ RGt(calls[k].rules.cohesionWeight, R(0))
    /\ RLe(calls[k].rules.cohesionWeight, calls[k].rules.maxSpeed)

\* C12: the cohesion term of a boid is the direction to the average position
\* of exactly the other boids at a distance below cohesionRadius: where only
\* cohesion has a weight, the force of a boid with a neighbour is that
\* direction times cohesionWeight, whatever alignmentRadius is.
C12_CohesionWithinCohesionRadius ==
    \A k \in 1..Len(calls) :
        CohesionOnly(k) =>
            \A i \in DOMAIN calls[k].particles :
                (/\ Within(k, i, calls[k].rules.alignmentRadius) # {}
                 /\ Within(k, i, calls[k].rules.cohesionRadius) # {}
                 /\ HasLength(Centre(k, i, calls[k].rules.cohesionRadius)))
                => calls[k].ret[i]
                       = scale(normalizeNonZero(
                                   Centre(k, i, calls[k].rules.cohesionRadius)),
                               calls[k].rules.cohesionWeight)

\* Boid j is the one boid within separationRadius of boid i in call k, at a
\* position other than that of boid i, and separation has a weight.
SeparationNeighbour(k, i, j) ==
    /\ calls[k].fn = "boids"
    /\ Within(k, i, calls[k].rules.separationRadius) = {j}
    /\ calls[k].particles[i].position # calls[k].particles[j].position
    /\ RGt(calls[k].rules.separationWeight, R(0))

\* Alignment and cohesion add nothing to the force of boid i in call k:
\* no boid is within alignmentRadius or cohesionRadius, or both weights
\* are 0.
SeparationOnly(k, i) ==
    \/ /\ Within(k, i, calls[k].rules.alignmentRadius) = {}
       /\ Within(k, i, calls[k].rules.cohesionRadius) = {}
    \/ /\ calls[k].rules.alignmentWeight = R(0)
       /\ calls[k].rules.cohesionWeight = R(0)

\* C28: a boid with another boid at a distance d < separationRadius, at a
\* distinct position and with separationWeight > 0, receives a non-zero
\* separation contribution directed away from that boid, whatever
\* alignmentRadius and cohesionRadius are, also when d >= alignmentRadius:
\* where nothing else adds to the force, the force is not zero and points
\* away from the neighbour.
C28_SeparationIndependent ==
    \A k \in 1..Len(calls) :
        calls[k].fn = "boids" =>
            \A i, j \in DOMAIN calls[k].particles :
                (SeparationNeighbour(k, i, j) /\ SeparationOnly(k, i)) =>
                    /\ calls[k].ret[i] # zero
                    /\ RGt(dot(calls[k].ret[i],
                               subtract(calls[k].particles[i].position,
                                        calls[k].particles[j].position)),
                           R(0))

====
